---------------------------- MODULE Spec2Model ----------------------------
(***************************************************************************)
(* "Ucitelj Vasa": the resilience layer, that is the circuit breaker       *)
(* (utils/circuit_breaker.py), the retry handler (utils/retry_handler.py)  *)
(* and the fallback chain (utils/fallback_manager.py); the resilient AI    *)
(* service built from them (ai_services/ai_factory.py); the request        *)
(* analyzer (web_api/models/request_types.py) and the provider router      *)
(* with its strategies (web_api/models/router.py).                         *)
(*                                                                         *)
(* Each component is a state machine of its own; a specification per       *)
(* component drives that component and leaves the others idle.             *)
(* SpecRecovery is the breaker under fairness, for its liveness.           *)
(***************************************************************************)
EXTENDS Integers, Sequences, FiniteSets, TLC

VARIABLES
    \* ---- circuit breaker ----
    cb,        \* the CircuitBreaker object (fields of __init__, stats nested)
    now,       \* datetime.now(), in whole seconds
    last,      \* what the latest call()/reset() did: pre-state, outcome, ...
    streak,    \* history: operations that failed in a row since the last success or reset
    probes,    \* history: operations that succeeded since HALF_OPEN was entered
    th,        \* two threads inside call() on one breaker: where each one is
    \* ---- retry handler ----
    rcfg,      \* the RetryConfig in use
    rt,        \* retry_with_config's wrapper: its locals, what it did and how it ended
    fn,        \* history: what func raised last, and how often it raised a listed retry error
    delays,    \* calculate_delay's latest two results, with their attempt numbers
    \* ---- fallback chain ----
    chain,     \* the FallbackChain object: options and execution_history
    fb,        \* what the latest add_option()/execute() did, and what each
               \* handler it invoked did
    \* ---- request analyzer ----
    az,        \* the latest RequestAnalyzer.analyze(): its argument and its result
    \* ---- load balancing strategy ----
    lb,        \* a LoadBalancingStrategy object, the list it is given, and what
               \* its latest select_provider() did
    \* ---- provider router ----
    router,    \* the SmartProviderRouter object: its strategy and routing_history
    env,       \* what the router reads: Config's API keys and circuit_registry
    routed,    \* what the latest route_request() was given, found and returned
    \* ---- resilient AI service ----
    wrapper,   \* a ResilientAIServiceWrapper: its base service, the breaker of
               \* _circuit_breaker_call and its fallback chain
    clock,     \* datetime.now() of that breaker, in whole seconds
    reply,     \* what the latest pozovi_ai() was given and what came of it
    globals,   \* the class attributes the services share: Config.AI_PROVIDER
               \* and AIServiceFactory._instance (the provider whose service
               \* it holds, or "none")
    \* ---- SmartRetry ----
    smart,     \* a SmartRetry object: failure_history and success_after_retry
    sr,        \* execute_with_retry: its arguments, its locals and how it ended
    sfn,       \* history: what func did at its latest invocation
    \* ---- breakers of the resilient services ----
    breakers,          \* the CircuitBreaker objects created by @circuit_breaker:
                       \* a breaker is referred to by its position here
    wrapper_class,     \* class ResilientAIServiceWrapper: the breaker its method
                       \* _circuit_breaker_call refers to
    circuit_registry,  \* utils.circuit_breaker.circuit_registry: name -> breaker
    wrappers,          \* the ResilientAIServiceWrapper instances created
    reg,               \* what the latest operation on them was, and the breakers
                       \* before it
    \* ---- hybrid strategy ----
    hy,        \* a HybridRoutingStrategy object (the provider_counts of its
               \* load_balance_strategy), the list and request of its latest
               \* select_provider() and what came of it
    \* ---- recovery ----
    health     \* whether the protected function has recovered for good (from
               \* then on it returns whenever it is invoked), and the state
               \* the breaker was in when it did

cbVars == <<cb, now, last, streak, probes>>
retryVars == <<rcfg, rt, fn, delays>>
fallbackVars == <<chain, fb>>
raceVars == <<th>>
analyzerVars == <<az>>
balanceVars == <<lb>>
routerVars == <<router, env, routed>>
serviceVars == <<wrapper, clock, reply, globals>>
smartVars == <<smart, sr, sfn>>
registryVars == <<breakers, wrapper_class, circuit_registry, wrappers, reg>>
hybridVars == <<hy>>
recoveryVars == <<health>>

vars == <<cbVars, raceVars, retryVars, fallbackVars, analyzerVars, balanceVars, routerVars, serviceVars, smartVars, registryVars, hybridVars, recoveryVars>>

\* what a step of one component leaves alone
notCircuit == <<raceVars, retryVars, fallbackVars, analyzerVars, balanceVars, routerVars, serviceVars, smartVars, registryVars, hybridVars, recoveryVars>>
notRetry == <<cbVars, raceVars, fallbackVars, analyzerVars, balanceVars, routerVars, serviceVars, smartVars, registryVars, hybridVars, recoveryVars>>
notFallback == <<cbVars, raceVars, retryVars, analyzerVars, balanceVars, routerVars, serviceVars, smartVars, registryVars, hybridVars, recoveryVars>>
notRace == <<last, streak, probes, retryVars, fallbackVars, analyzerVars, balanceVars, routerVars, serviceVars, smartVars, registryVars, hybridVars, recoveryVars>>
notAnalyzer == <<cbVars, retryVars, fallbackVars, raceVars, balanceVars, routerVars, serviceVars, smartVars, registryVars, hybridVars, recoveryVars>>
notBalance == <<cbVars, retryVars, fallbackVars, raceVars, analyzerVars, routerVars, serviceVars, smartVars, registryVars, hybridVars, recoveryVars>>
notRouter == <<cbVars, retryVars, fallbackVars, raceVars, analyzerVars, balanceVars, serviceVars, smartVars, registryVars, hybridVars, recoveryVars>>
notService == <<cbVars, retryVars, fallbackVars, raceVars, analyzerVars, balanceVars, routerVars, smartVars, registryVars, hybridVars, recoveryVars>>
notSmart == <<cbVars, retryVars, fallbackVars, raceVars, analyzerVars, balanceVars, routerVars, serviceVars, registryVars, hybridVars, recoveryVars>>
notRegistry == <<cbVars, retryVars, fallbackVars, raceVars, analyzerVars, balanceVars, routerVars, serviceVars, smartVars, hybridVars, recoveryVars>>
notHybrid == <<cbVars, retryVars, fallbackVars, raceVars, analyzerVars, balanceVars, routerVars, serviceVars, smartVars, registryVars, recoveryVars>>
notRecovery == <<retryVars, fallbackVars, raceVars, analyzerVars, balanceVars, routerVars, serviceVars, smartVars, registryVars, hybridVars>>

(***************************************************************************)
(* Bounds of the model                                                     *)
(***************************************************************************)
MaxThreshold == 2   \* failure_threshold and success_threshold range over 1..MaxThreshold
MaxFaulty == 2      \* operations on the breaker before the callers of SpecRecovery stop
MaxTimeout == 1     \* recovery_timeout ranges over 0..MaxTimeout
MaxTime == 3        \* the clock stops here
MaxDur == 1         \* an operation takes 0..MaxDur seconds
MaxCalls == 5       \* call()/reset() invocations per behaviour
MaxRaceCalls == 3   \* call() invocations of the two threads together
MaxAttempts == 3    \* max_attempts of a RetryConfig that is no preset ranges over 1..MaxAttempts
MaxAttempt == 7     \* calculate_delay is applied to attempts 0..MaxAttempt
MaxInitial == 2     \* initial_delay ranges over 0.1 s .. MaxInitial * 0.1 s
MaxDelay == 3       \* max_delay ranges over 0.1 s .. MaxDelay * 0.1 s
MaxBase == 2        \* exponential_base ranges over 1..MaxBase
MaxWords == 2       \* words of an exception message
MaxOptions == 3     \* options added to a chain
MaxExecutes == 2    \* execute() invocations per behaviour
MaxSmartCalls == 2  \* execute_with_retry() invocations per behaviour
MaxWrappers == 2    \* ResilientAIServiceWrapper instances created
MaxWrapperCalls == 3 \* calls through the instances, all together
MaxPozovi == 4      \* pozovi_ai() invocations per behaviour
MaxWaits == 1       \* pauses between pozovi_ai() invocations
MaxRoutes == 2      \* route_request() invocations per behaviour
MaxSelects == 4     \* select_provider() invocations on one strategy object
MaxTokens == 5      \* tokens of a message given to analyze()
JitterSteps == 2    \* random.uniform returns one of 2 * JitterSteps + 1 evenly spaced values

(***************************************************************************)
(* utils/circuit_breaker.py                                                *)
(***************************************************************************)
CLOSED == "closed"
OPEN == "open"
HALF_OPEN == "half_open"
CircuitState == {CLOSED, OPEN, HALF_OPEN}

\* Optional[datetime] = None
NoTime == -1

\* a fresh CircuitStats()
CircuitStats ==
    [success_count |-> 0, failure_count |-> 0, consecutive_failures |-> 0,
     last_failure_time |-> NoTime, state_changes |-> <<>>]

\* CircuitBreaker.__init__ at time t
CircuitBreaker(failure_threshold, recovery_timeout, success_threshold, t) ==
    [failure_threshold |-> failure_threshold,
     recovery_timeout |-> recovery_timeout,
     success_threshold |-> success_threshold,
     state |-> CLOSED,
     stats |-> CircuitStats,
     half_open_success_count |-> 0,
     state_changed_at |-> t]

record_success(s) ==
    [s EXCEPT !.success_count = @ + 1, !.consecutive_failures = 0]

record_failure(s, t) ==
    [s EXCEPT !.failure_count = @ + 1, !.consecutive_failures = @ + 1,
              !.last_failure_time = t]

\* mutant: the timer is read without checking that the circuit is OPEN
should_attempt_reset_any_state(b, t) ==
    t > b.state_changed_at + b.recovery_timeout

\* mutant: the timeout is also tested while the breaker is HALF_OPEN
should_attempt_reset_half_open(b, t) ==
    /\ b.state \in {OPEN, HALF_OPEN}
    /\ t > b.state_changed_at + b.recovery_timeout

\* mutant: the timer is measured from the last recorded failure
should_attempt_reset_last_failure(b, t) ==
    /\ b.state = OPEN
    /\ t > b.stats.last_failure_time + b.recovery_timeout

\* mutant: the timeout counts as elapsed one tick early
should_attempt_reset_early(b, t) ==
    /\ b.state = OPEN
    /\ t >= b.state_changed_at + b.recovery_timeout

should_attempt_reset(b, t) ==
    /\ b.state = OPEN
    /\ t > b.state_changed_at + b.recovery_timeout

record_state_change(b, new_state, reason, t) ==
    [b EXCEPT !.state = new_state,
              !.state_changed_at = t,
              !.stats.state_changes =
                  Append(@, [time |-> t, from |-> b.state, to |-> new_state,
                             reason |-> reason])]

\* mutant: the probe counter survives from an earlier HALF_OPEN episode
attempt_reset_keep_count(b, t) ==
    IF should_attempt_reset(b, t)
    THEN record_state_change(b, HALF_OPEN, "recovery", t)
    ELSE b

\* call(), lines 128-134
attempt_reset(b, t) ==
    IF should_attempt_reset(b, t)
    THEN [record_state_change(b, HALF_OPEN, "recovery", t)
             EXCEPT !.half_open_success_count = 0]
    ELSE b

\* mutant: a successful probe is recorded, the threshold is not consulted
on_success_never_closes(b, t) ==
    LET b1 == [b EXCEPT !.stats = record_success(@)] IN
    IF b1.state = HALF_OPEN
    THEN [b1 EXCEPT !.half_open_success_count = @ + 1]
    ELSE b1

on_success(b, t) ==
    LET b1 == [b EXCEPT !.stats = record_success(@)] IN
    IF b1.state = HALF_OPEN
    THEN LET b2 == [b1 EXCEPT !.half_open_success_count = @ + 1] IN
         IF b2.half_open_success_count >= b2.success_threshold
         THEN record_state_change(b2, CLOSED, "recovered", t)
         ELSE b2
    ELSE b1

\* mutant: the threshold has to be exceeded, not reached
on_failure_strict(b, t) ==
    LET b1 == [b EXCEPT !.stats = record_failure(@, t)] IN
    IF b1.state = HALF_OPEN
    THEN record_state_change(b1, OPEN, "probe_failed", t)
    ELSE IF /\ b1.state = CLOSED
            /\ b1.stats.consecutive_failures > b1.failure_threshold
         THEN record_state_change(b1, OPEN, "threshold", t)
         ELSE b1

\* mutant: a failed probe is forgiven once a probe has succeeded
on_failure_lenient(b, t) ==
    LET b1 == [b EXCEPT !.stats = record_failure(@, t)] IN
    IF b1.state = HALF_OPEN /\ b1.half_open_success_count = 0
    THEN record_state_change(b1, OPEN, "probe_failed", t)
    ELSE IF /\ b1.state = CLOSED
            /\ b1.stats.consecutive_failures >= b1.failure_threshold
         THEN record_state_change(b1, OPEN, "threshold", t)
         ELSE b1

on_failure(b, t) ==
    LET b1 == [b EXCEPT !.stats = record_failure(@, t)] IN
    IF b1.state = HALF_OPEN
    THEN record_state_change(b1, OPEN, "probe_failed", t)
    ELSE IF /\ b1.state = CLOSED
            /\ b1.stats.consecutive_failures >= b1.failure_threshold
         THEN record_state_change(b1, OPEN, "threshold", t)
         ELSE b1

\* mutant: a rejected call restarts the recovery timer
call_rejection_restarts_timer(b, t, ok, d) ==
    LET b1 == attempt_reset(b, t) IN
    IF b1.state = OPEN
    THEN [cb |-> [b1 EXCEPT !.stats = record_failure(@, t), !.state_changed_at = t],
          outcome |-> "CircuitOpenError", invoked |-> FALSE, end |-> t]
    ELSE IF ok
         THEN [cb |-> on_success(b1, t + d),
               outcome |-> "returned", invoked |-> TRUE, end |-> t + d]
         ELSE [cb |-> on_failure(b1, t + d),
               outcome |-> "raised", invoked |-> TRUE, end |-> t + d]

\* call(func): entered at time t; func, when invoked, runs for d seconds and
\* returns (ok) or raises an Exception (~ok).  The result is the breaker
\* afterwards, what the caller sees, and whether func was invoked.
call(b, t, ok, d) ==
    LET b1 == attempt_reset(b, t) IN
    IF b1.state = OPEN
    THEN [cb |-> [b1 EXCEPT !.stats = record_failure(@, t)],
          outcome |-> "CircuitOpenError", invoked |-> FALSE, end |-> t]
    ELSE IF ok
         THEN [cb |-> on_success(b1, t + d),
               outcome |-> "returned", invoked |-> TRUE, end |-> t + d]
         ELSE [cb |-> on_failure(b1, t + d),
               outcome |-> "raised", invoked |-> TRUE, end |-> t + d]

\* mutant: the statistics survive a manual reset
reset_keep_stats(b, t) ==
    LET b1 == record_state_change(b, CLOSED, "manual", t) IN
    [cb |-> [b1 EXCEPT !.half_open_success_count = 0],
     logged |-> b1.stats.state_changes]

\* reset(): the state change is appended to the statistics that the next
\* line replaces
reset(b, t) ==
    LET b1 == record_state_change(b, CLOSED, "manual", t) IN
    [cb |-> [b1 EXCEPT !.stats = CircuitStats, !.half_open_success_count = 0],
     logged |-> b1.stats.state_changes]

(***************************************************************************)
(* utils/retry_handler.py                                                  *)
(*                                                                         *)
(* Delays are counted in ticks of 0.025 s, so that the 0.1 s floor is 4    *)
(* ticks and a quarter of a delay that is a multiple of 0.1 s is a whole   *)
(* number of ticks.                                                        *)
(***************************************************************************)
\* the floor of calculate_delay: 0.1 s
MinDelay == 4

\* RetryConfig.__init__
RetryConfig(max_attempts, initial_delay, max_delay, exponential_base, jitter) ==
    [max_attempts |-> max_attempts, initial_delay |-> initial_delay,
     max_delay |-> max_delay, exponential_base |-> exponential_base,
     jitter |-> jitter]

\* the defaults of RetryConfig.__init__: 3 attempts, 1.0 s, 60.0 s, 2.0
DefaultAttempts == 3
DefaultInitialDelay == 40
DefaultMaxDelay == 2400
DefaultBase == 2

RETRY_CONFIGS ==
    [default |-> RetryConfig(DefaultAttempts, DefaultInitialDelay, DefaultMaxDelay, DefaultBase, TRUE),
     aggressive |-> RetryConfig(5, 20, DefaultMaxDelay, DefaultBase, TRUE),
     conservative |-> RetryConfig(2, 80, DefaultMaxDelay, DefaultBase, TRUE),
     api_rate_limit |-> RetryConfig(3, 200, 1200, DefaultBase, TRUE)]

RECURSIVE Pow(_, _)
Pow(base, n) == IF n = 0 THEN 1 ELSE base * Pow(base, n - 1)

Min(a, b) == IF a <= b THEN a ELSE b
Max(a, b) == IF a >= b THEN a ELSE b

\* what random.uniform(-r, r) may return: r * u / JitterSteps for a whole u
\* between -JitterSteps and JitterSteps
Uniform(r, u) ==
    IF u >= 0 THEN (r * u) \div JitterSteps ELSE -((r * (-u)) \div JitterSteps)

\* calculate_delay(attempt, config), u choosing the value of random.uniform
calculate_delay(attempt, config, u) ==
    LET capped == Min(config.initial_delay * Pow(config.exponential_base, attempt),
                      config.max_delay)
        jitter_range == capped \div 4
        delay == IF config.jitter THEN capped + Uniform(jitter_range, u) ELSE capped
    IN Max(MinDelay, delay)

\* An exception message is a sequence of words, str(error) their text.
Vocabulary == {"Connection", "timeout", "Unauthorized", "kaboom", "ValueError"}

\* str.lower(), word by word
Lower(w) ==
    CASE w = "Connection" -> "connection"
      [] w = "Unauthorized" -> "unauthorized"
      [] w = "ValueError" -> "valueerror"
      [] w = "Zdravo" -> "zdravo"
      [] OTHER -> w

\* str(error).lower()
error_str(msg) == [i \in DOMAIN msg |-> Lower(msg[i])]

\* `word in error_str`: no word of the vocabulary contains another or is
\* part of a listed phrase, so a listed phrase is in the text exactly when it
\* is one of its words
In(word, text) == \E i \in DOMAIN text : text[i] = word

retry_errors ==
    {"rate_limit", "rate limit", "timeout", "timed out", "connection", "network",
     "temporary", "unavailable", "429", "503", "502", "500"}

no_retry_errors ==
    {"invalid api key", "unauthorized", "insufficient_quota", "payment",
     "invalid request", "bad request"}

\* mutant: an error no list names is retried
should_retry_by_default(msg) ==
    LET text == error_str(msg) IN
    IF \E w \in retry_errors : In(w, text) THEN TRUE
    ELSE IF \E w \in no_retry_errors : In(w, text) THEN FALSE
    ELSE TRUE

\* should_retry(error): the retry list is searched first
should_retry(msg) ==
    LET text == error_str(msg) IN
    IF \E w \in retry_errors : In(w, text) THEN TRUE
    ELSE IF \E w \in no_retry_errors : In(w, text) THEN FALSE
    ELSE FALSE

NoError == [id |-> 0, msg |-> <<>>]

\* the wrapper's locals on entry, with counters of what it did
wrapper_entry ==
    [pc |-> "loop", attempt |-> 0, last_error |-> NoError,
     invocations |-> 0, sleeps |-> 0, slept |-> 0,
     outcome |-> [kind |-> "none", error |-> NoError]]

\* mutant: the final attempt is followed by a delay like the others
wrapper_attempt_sleep_always(st, config, ok, msg) ==
    LET e == [id |-> st.invocations + 1, msg |-> msg]
        st1 == [st EXCEPT !.invocations = @ + 1]
    IN
    IF ok
    THEN [st1 EXCEPT !.pc = "done", !.outcome = [kind |-> "returned", error |-> NoError]]
    ELSE LET st2 == [st1 EXCEPT !.last_error = e] IN
         IF ~should_retry(e.msg)
         THEN [st2 EXCEPT !.pc = "done", !.outcome = [kind |-> "reraised", error |-> e]]
         ELSE [st2 EXCEPT !.pc = "sleep"]

\* one iteration of the wrapper's loop up to time.sleep: func is invoked and
\* returns (ok) or raises an exception with message msg.  On the last
\* iteration the loop is left and RetryError raised.
wrapper_attempt(st, config, ok, msg) ==
    LET e == [id |-> st.invocations + 1, msg |-> msg]
        st1 == [st EXCEPT !.invocations = @ + 1]
    IN
    IF ok
    THEN [st1 EXCEPT !.pc = "done", !.outcome = [kind |-> "returned", error |-> NoError]]
    ELSE LET st2 == [st1 EXCEPT !.last_error = e] IN
         IF ~should_retry(e.msg)
         THEN [st2 EXCEPT !.pc = "done", !.outcome = [kind |-> "reraised", error |-> e]]
         ELSE IF st.attempt = config.max_attempts - 1
              THEN [st2 EXCEPT !.pc = "done",
                               !.outcome = [kind |-> "RetryError",
                                            error |-> st2.last_error]]
              ELSE [st2 EXCEPT !.pc = "sleep"]

\* the rest of the iteration: the delay is computed and slept, and the loop
\* goes on to the next attempt; when range(max_attempts) is used up the loop
\* ends and RetryError is raised
wrapper_sleep(st, config, u) ==
    LET st1 == [st EXCEPT !.sleeps = @ + 1,
                          !.slept = calculate_delay(st.attempt, config, u)]
    IN
    IF st.attempt + 1 < config.max_attempts
    THEN [st1 EXCEPT !.pc = "loop", !.attempt = @ + 1]
    ELSE [st1 EXCEPT !.pc = "done",
                     !.outcome = [kind |-> "RetryError", error |-> st1.last_error]]

(***************************************************************************)
(* utils/retry_handler.py: SmartRetry                                      *)
(*                                                                         *)
(* failure_history and success_after_retry are dictionaries keyed by       *)
(* func.__name__: functions whose domain is the set of keys present.  The  *)
(* time of a failure entry is left out.                                    *)
(***************************************************************************)
\* SmartRetry.__init__
SmartRetry == [failure_history |-> <<>>, success_after_retry |-> <<>>]

\* dict.get(key, default)
Get(dict, key, default) == IF key \in DOMAIN dict THEN dict[key] ELSE default

\* dict[key] = value
Put(dict, key, value) ==
    [k \in DOMAIN dict \cup {key} |-> IF k = key THEN value ELSE dict[k]]

\* del dict[key]
Del(dict, key) == [k \in DOMAIN dict \ {key} |-> dict[k]]

\* the locals of execute_with_retry on entry
smart_entry(func_name, config) ==
    [pc |-> "loop", func_name |-> func_name, config |-> config, attempt |-> 0,
     last_error |-> NoError, invocations |-> 0, sleeps |-> 0, slept |-> 0,
     outcome |-> [kind |-> "none", success |-> FALSE, value |-> NoError]]

\* mutant: an error that is not to be retried is raised to the caller
smart_attempt_reraise(sm, st, ok, msg) ==
    LET e == [id |-> st.invocations + 1, msg |-> msg]
        name == st.func_name
        st1 == [st EXCEPT !.invocations = @ + 1]
    IN
    IF ok
    THEN [smart |-> [failure_history |-> Del(sm.failure_history, name),
                     success_after_retry |->
                         IF st.attempt > 0
                         THEN Put(sm.success_after_retry, name,
                                  Get(sm.success_after_retry, name, 0) + 1)
                         ELSE sm.success_after_retry],
          st |-> [st1 EXCEPT !.pc = "done",
                             !.outcome = [kind |-> "returned", success |-> TRUE,
                                          value |-> NoError]]]
    ELSE LET entry == [error |-> msg, attempt |-> st.attempt + 1]
             sm1 == [sm EXCEPT !.failure_history =
                         Put(@, name, Append(Get(@, name, <<>>), entry))]
             st2 == [st1 EXCEPT !.last_error = e]
         IN
         IF ~should_retry(msg)
         THEN [smart |-> sm1,
               st |-> [st2 EXCEPT !.pc = "done",
                                  !.outcome = [kind |-> "raised", success |-> FALSE,
                                               value |-> e]]]
         ELSE IF st.attempt = st.config.max_attempts - 1
         THEN [smart |-> sm1,
               st |-> [st2 EXCEPT !.pc = "done",
                                  !.outcome = [kind |-> "returned", success |-> FALSE,
                                               value |-> e]]]
         ELSE [smart |-> sm1, st |-> [st2 EXCEPT !.pc = "sleep"]]

\* one iteration of the loop of execute_with_retry up to time.sleep: func is
\* invoked and returns (ok) or raises an exception with message msg
smart_attempt(sm, st, ok, msg) ==
    LET e == [id |-> st.invocations + 1, msg |-> msg]
        name == st.func_name
        st1 == [st EXCEPT !.invocations = @ + 1]
    IN
    IF ok
    THEN [smart |-> [failure_history |-> Del(sm.failure_history, name),
                     success_after_retry |->
                         IF st.attempt > 0
                         THEN Put(sm.success_after_retry, name,
                                  Get(sm.success_after_retry, name, 0) + 1)
                         ELSE sm.success_after_retry],
          st |-> [st1 EXCEPT !.pc = "done",
                             !.outcome = [kind |-> "returned", success |-> TRUE,
                                          value |-> NoError]]]
    ELSE LET entry == [error |-> msg, attempt |-> st.attempt + 1]
             sm1 == [sm EXCEPT !.failure_history =
                         Put(@, name, Append(Get(@, name, <<>>), entry))]
             st2 == [st1 EXCEPT !.last_error = e]
         IN
         IF ~should_retry(msg) \/ st.attempt = st.config.max_attempts - 1
         THEN [smart |-> sm1,
               st |-> [st2 EXCEPT !.pc = "done",
                                  !.outcome = [kind |-> "returned", success |-> FALSE,
                                               value |-> e]]]
         ELSE [smart |-> sm1, st |-> [st2 EXCEPT !.pc = "sleep"]]

\* the rest of the iteration: the delay is computed and slept; when
\* range(max_attempts) is used up the loop ends and (False, last_error) is
\* returned
smart_sleep(st, u) ==
    LET st1 == [st EXCEPT !.sleeps = @ + 1,
                          !.slept = calculate_delay(st.attempt, st.config, u)]
    IN
    IF st.attempt + 1 < st.config.max_attempts
    THEN [st1 EXCEPT !.pc = "loop", !.attempt = @ + 1]
    ELSE [st1 EXCEPT !.pc = "done",
                     !.outcome = [kind |-> "returned", success |-> FALSE,
                                  value |-> st1.last_error]]

(***************************************************************************)
(* utils/fallback_manager.py                                               *)
(*                                                                         *)
(* An option is named by the number of the add_option() call that added    *)
(* it, and str(e) of the exception a handler raises by the text Error(n)   *)
(* of that option.  The timestamps of the history entries are left out.    *)
(***************************************************************************)
\* list(FallbackLevel): the order of definition
FallbackLevel == <<"primary", "secondary", "tertiary", "emergency">>

\* list(FallbackLevel).index(level)
LevelIndex(level) == CHOOSE i \in DOMAIN FallbackLevel : FallbackLevel[i] = level

FallbackOption(name, level) == [name |-> name, level |-> level]

\* FallbackChain.__init__
FallbackChain == [options |-> <<>>, execution_history |-> <<>>]

\* one step of a stable sort: x goes behind every element whose key is not
\* greater
RECURSIVE InsertByLevel(_, _)
InsertByLevel(sorted, x) ==
    IF sorted = <<>> THEN <<x>>
    ELSE IF LevelIndex(x.level) < LevelIndex(Head(sorted).level)
         THEN <<x>> \o sorted
         ELSE <<Head(sorted)>> \o InsertByLevel(Tail(sorted), x)

\* list.sort(key=...): stable
RECURSIVE SortByLevel(_)
SortByLevel(list) ==
    IF list = <<>> THEN <<>>
    ELSE InsertByLevel(SortByLevel(SubSeq(list, 1, Len(list) - 1)), list[Len(list)])

\* mutant: the option is appended and the list left as it is
add_option_unsorted(c, option) ==
    [c EXCEPT !.options = Append(@, option)]

add_option(c, option) ==
    [c EXCEPT !.options = SortByLevel(Append(@, option))]

\* str(e) of the exception that the handler of option name raises
Error(name) == <<"error of", name>>

\* the history entry execute() appends for option i, whose handler returned
\* (ok) or raised
HistoryEntry(option, i, ok) ==
    [option |-> option.name, level |-> option.level, success |-> ok,
     attempt_number |-> i, error |-> IF ok THEN <<>> ELSE Error(option.name)]

\* execute()'s loop from option i on: handler[name] says whether the handler
\* of that option returns (TRUE) or raises.  st collects the handlers
\* invoked, the errors and the history.
\* the loop of execute() when the first failure ends it
execute_from_fail_fast(st, i, handler) ==
    IF i > Len(st.chain.options)
    THEN [st EXCEPT !.result = [kind |-> "raised", value |-> 0]]
    ELSE LET option == st.chain.options[i]
             ok == handler[option.name]
             st1 == [st EXCEPT !.invoked = Append(@, option),
                               !.chain.execution_history =
                                   Append(@, HistoryEntry(option, i, ok))]
         IN
         IF ok
         THEN [st1 EXCEPT !.result = [kind |-> "returned", value |-> option.name]]
         ELSE [st1 EXCEPT !.errors = Append(@, <<option.name, Error(option.name)>>),
                          !.result = [kind |-> "raised", value |-> 0]]

RECURSIVE execute_from(_, _, _)
execute_from(st, i, handler) ==
    IF i > Len(st.chain.options)
    THEN [st EXCEPT !.result = [kind |-> "raised", value |-> 0]]
    ELSE LET option == st.chain.options[i]
             ok == handler[option.name]
             st1 == [st EXCEPT !.invoked = Append(@, option),
                               !.chain.execution_history =
                                   Append(@, HistoryEntry(option, i, ok))]
         IN
         IF ok
         THEN [st1 EXCEPT !.result = [kind |-> "returned", value |-> option.name]]
         ELSE execute_from([st1 EXCEPT !.errors =
                                Append(@, <<option.name, Error(option.name)>>)],
                           i + 1, handler)

\* mutant: execute() starts its history afresh
execute_fresh_history(c, handler) ==
    execute_from([chain |-> [c EXCEPT !.execution_history = <<>>],
                  invoked |-> <<>>, errors |-> <<>>,
                  result |-> [kind |-> "none", value |-> 0]],
                 1, handler)

\* execute(): the chain afterwards, the handlers invoked in order, the
\* result (the value returned, or the aggregate exception) and the errors
\* the aggregate message lists
execute(c, handler) ==
    execute_from([chain |-> c, invoked |-> <<>>, errors |-> <<>>,
                  result |-> [kind |-> "none", value |-> 0]],
                 1, handler)

(***************************************************************************)
(* web_api/models/request_types.py                                         *)
(*                                                                         *)
(* A text is the sequence of its tokens (words, punctuation marks, code    *)
(* fragments), written without diacritics; a keyword is the sequence of    *)
(* its words.  No token of the model contains a keyword or a pattern       *)
(* other than itself, so `keyword in text` is true exactly when the words  *)
(* of the keyword are consecutive tokens of the text.                      *)
(***************************************************************************)
\* class RequestType(Enum), in the order of its members
RequestType == <<"chat", "code", "debug", "explain", "review", "translate", "optimize">>

TYPE_KEYWORDS ==
    [type \in {RequestType[i] : i \in 2..Len(RequestType)} |->
        CASE type = "code" ->
               {<<"napisi">>, <<"generisi">>, <<"kreiraj">>, <<"kod", "za">>,
                <<"funkcij">>, <<"implementiraj">>, <<"primer", "koda">>,
                <<"write">>, <<"create">>, <<"generate">>}
          [] type = "debug" ->
               {<<"greska">>, <<"error">>, <<"ne", "radi">>, <<"problem">>,
                <<"bug">>, <<"debug">>, <<"zasto">>, <<"exception">>,
                <<"pomazi">>, <<"popravi">>, <<"fix">>}
          [] type = "explain" ->
               {<<"objasni">>, <<"sta", "je">>, <<"kako", "funkcionise">>,
                <<"razumem">>, <<"koncept">>, <<"teorija">>, <<"explain">>,
                <<"what", "is">>, <<"how", "does">>}
          [] type = "review" ->
               {<<"pregled">>, <<"review">>, <<"da", "li", "je", "dobro">>,
                <<"proveri">>, <<"analiza">>, <<"kvalitet">>,
                <<"najbolja", "praksa">>, <<"check">>}
          [] type = "translate" ->
               {<<"prevedi">>, <<"konvertuj">>, <<"iz", "python", "u">>,
                <<"translate">>, <<"convert">>, <<"prebaci">>}
          [] type = "optimize" ->
               {<<"optimizuj">>, <<"brze">>, <<"performanse">>, <<"optimize">>,
                <<"faster">>, <<"performance">>, <<"poboljsaj">>, <<"improve">>}]

\* the token of three backquotes that opens and closes a block of code
Fence == "fence"

\* `phrase in text`
Contains(text, phrase) ==
    \E i \in 1..(Len(text) - Len(phrase) + 1) :
        SubSeq(text, i, i + Len(phrase) - 1) = phrase

\* lines 203-217: the points of every type
scores(raw_content) ==
    LET content_lower == [i \in DOMAIN raw_content |-> Lower(raw_content[i])]
        keywords(type) ==
            IF type \in DOMAIN TYPE_KEYWORDS
            THEN Cardinality({k \in TYPE_KEYWORDS[type] : Contains(content_lower, k)})
            ELSE 0
        code_like == \/ Contains(raw_content, <<Fence>>)
                     \/ Contains(raw_content, <<"def ">>)
                     \/ Contains(raw_content, <<"class ">>)
        question == /\ Contains(raw_content, <<"?">>)
                    /\ \E word \in {"sta", "kako", "zasto"} :
                          Contains(content_lower, <<word>>)
    IN
    [i \in DOMAIN RequestType |->
        keywords(RequestType[i])
        + (IF code_like /\ RequestType[i] = "debug" THEN 2 ELSE 0)
        + (IF code_like /\ RequestType[i] = "review" THEN 1 ELSE 0)
        + (IF question /\ RequestType[i] = "explain" THEN 1 ELSE 0)]

\* RequestAnalyzer.analyze: the first type, in the order of the enum, that
\* has the most points; CHAT when no type has a point
analyze(raw_content) ==
    LET sc == scores(raw_content)
        max_score == CHOOSE m \in {sc[i] : i \in DOMAIN sc} :
                        \A i \in DOMAIN sc : sc[i] <= m
    IN
    IF max_score > 0
    THEN RequestType[CHOOSE i \in DOMAIN sc :
                        /\ sc[i] = max_score
                        /\ \A j \in 1..(i - 1) : sc[j] /= max_score]
    ELSE "chat"

(***************************************************************************)
(* web_api/models/router.py: the routing strategies                        *)
(***************************************************************************)
Range(seq) == {seq[i] : i \in DOMAIN seq}

\* self.provider_counts.get(p, 0)
Count(provider_counts, p) ==
    IF p \in DOMAIN provider_counts THEN provider_counts[p] ELSE 0

\* mutant: random.choice over every available provider
load_balancing_select_any(provider_counts, available_providers, u) ==
    IF available_providers = <<>>
    THEN [provider_counts |-> provider_counts,
          outcome |-> [kind |-> "returned", value |-> "openai"]]
    ELSE LET selected == available_providers[((u - 1) % Len(available_providers)) + 1]
         IN [provider_counts |->
                 [p \in DOMAIN provider_counts \cup Range(available_providers) |->
                     Count(provider_counts, p) + (IF p = selected THEN 1 ELSE 0)],
             outcome |-> [kind |-> "returned", value |-> selected]]

\* LoadBalancingStrategy.select_provider; random.choice(candidates) returns
\* candidates[(u - 1) mod len(candidates)], counted from 0
load_balancing_select_provider(provider_counts, available_providers, u) ==
    IF available_providers = <<>>
    THEN [provider_counts |-> provider_counts,
          outcome |-> [kind |-> "returned", value |-> "openai"]]
    ELSE IF Len(available_providers) = 1
    THEN [provider_counts |-> provider_counts,
          outcome |-> [kind |-> "returned", value |-> available_providers[1]]]
    ELSE LET counts == [p \in DOMAIN provider_counts \cup Range(available_providers) |->
                           Count(provider_counts, p)]
             min_count == CHOOSE m \in Range(counts) : \A p \in DOMAIN counts : m <= counts[p]
             IsCandidate(p) == Count(counts, p) = min_count
             candidates == SelectSeq(available_providers, IsCandidate)
         IN
         IF candidates = <<>>
         THEN [provider_counts |-> counts,
               outcome |-> [kind |-> "raised", value |-> "IndexError"]]
         ELSE LET selected == candidates[((u - 1) % Len(candidates)) + 1] IN
              [provider_counts |-> [counts EXCEPT ![selected] = @ + 1],
               outcome |-> [kind |-> "returned", value |-> selected]]

\* StaticRoutingStrategy._default_rules
default_rules ==
    [type \in Range(RequestType) |->
        IF type \in {"chat", "explain"} THEN "gemini" ELSE "openai"]

\* StaticRoutingStrategy.select_provider
static_select_provider(request_type, available_providers) ==
    LET preferred == default_rules[request_type] IN
    IF preferred \in Range(available_providers)
    THEN preferred
    ELSE IF available_providers /= <<>> THEN available_providers[1] ELSE "openai"

\* the first entry of a dict that max(d.items(), key=lambda x: x[1]) returns:
\* keys is the order of insertion
FirstMax(keys, score) ==
    keys[CHOOSE i \in DOMAIN keys :
            /\ \A j \in DOMAIN keys : score[keys[j]] <= score[keys[i]]
            /\ \A j \in 1..(i - 1) : score[keys[j]] < score[keys[i]]]

\* _get_average_latency, in tenths of a second
average_latency(provider) ==
    CASE provider = "openai" -> 15
      [] provider = "gemini" -> 8
      [] OTHER -> 20

\* _get_success_rate, in percent
success_rate(provider) ==
    CASE provider = "openai" -> 95
      [] provider = "gemini" -> 92
      [] OTHER -> 90

\* PerformanceRoutingStrategy.select_provider
performance_select_provider(metric, available_providers) ==
    IF available_providers = <<>> THEN "openai"
    ELSE IF Len(available_providers) = 1 THEN available_providers[1]
    ELSE LET score == [p \in Range(available_providers) |->
                          CASE metric = "latency" -> 0 - average_latency(p)
                            [] metric = "success_rate" -> success_rate(p)
                            [] OTHER -> 0]
         IN FirstMax(available_providers, score)

\* HybridRoutingStrategy.weights, in tenths
weights == [static |-> 5, performance |-> 3, load_balance |-> 2]

\* HybridRoutingStrategy.select_provider: provider_counts belongs to its
\* load_balance_strategy; its performance_strategy has the default metric
hybrid_select_provider(provider_counts, request_type, available_providers, u) ==
    IF available_providers = <<>>
    THEN [provider_counts |-> provider_counts,
          outcome |-> [kind |-> "returned", value |-> "openai"]]
    ELSE IF Len(available_providers) = 1
    THEN [provider_counts |-> provider_counts,
          outcome |-> [kind |-> "returned", value |-> available_providers[1]]]
    ELSE LET static == static_select_provider(request_type, available_providers)
             performance == performance_select_provider("latency", available_providers)
             balanced == load_balancing_select_provider(provider_counts,
                                                        available_providers, u)
         IN
         IF balanced.outcome.kind = "raised"
         THEN balanced
         ELSE LET load_balance == balanced.outcome.value
                  order == <<static>>
                           \o (IF performance /= static THEN <<performance>> ELSE <<>>)
                           \o (IF load_balance \notin {static, performance}
                               THEN <<load_balance>> ELSE <<>>)
                  provider_scores ==
                      [p \in Range(order) |->
                          (IF p = static THEN weights.static ELSE 0)
                          + (IF p = performance THEN weights.performance ELSE 0)
                          + (IF p = load_balance THEN weights.load_balance ELSE 0)]
              IN [provider_counts |-> balanced.provider_counts,
                  outcome |-> [kind |-> "returned",
                               value |-> FirstMax(order, provider_scores)]]

(***************************************************************************)
(* web_api/models/router.py: SmartProviderRouter                           *)
(*                                                                         *)
(* A strategy object is its class name, the metric of a performance        *)
(* strategy, and the provider_counts of a load balancing strategy (of a    *)
(* hybrid strategy: of its load_balance_strategy).  Config's API keys are  *)
(* the set of providers that have one; circuit_registry maps a provider    *)
(* to the state of the breaker registered as "ai_<provider>", or to        *)
(* Unregistered.  Keys and breakers are as they are found at the start.    *)
(***************************************************************************)
Unregistered == "unregistered"

Strategy(class, metric) == [class |-> class, metric |-> metric, provider_counts |-> <<>>]

\* SmartProviderRouter.__init__
SmartProviderRouter(strategy) == [strategy |-> strategy, routing_history |-> <<>>]

\* self.strategy.select_provider(request, available)
select_provider(strategy, request_type, available_providers, u) ==
    CASE strategy.class = "StaticRoutingStrategy" ->
           [provider_counts |-> strategy.provider_counts,
            outcome |-> [kind |-> "returned",
                         value |-> static_select_provider(request_type,
                                                          available_providers)]]
      [] strategy.class = "PerformanceRoutingStrategy" ->
           [provider_counts |-> strategy.provider_counts,
            outcome |-> [kind |-> "returned",
                         value |-> performance_select_provider(strategy.metric,
                                                               available_providers)]]
      [] strategy.class = "LoadBalancingStrategy" ->
           load_balancing_select_provider(strategy.provider_counts,
                                          available_providers, u)
      [] OTHER ->
           hybrid_select_provider(strategy.provider_counts, request_type,
                                  available_providers, u)

\* mutant: a provider is available whatever the state of its breaker
get_available_providers_by_key(keys, registry) ==
    (IF "openai" \in keys THEN <<"openai">> ELSE <<>>)
    \o (IF "gemini" \in keys THEN <<"gemini">> ELSE <<>>)

\* mutant: only a provider whose breaker is CLOSED, or that has none, is available
get_available_providers_closed_only(keys, registry) ==
    (IF "openai" \in keys /\ registry["openai"] \in {CLOSED, Unregistered}
     THEN <<"openai">> ELSE <<>>)
    \o (IF "gemini" \in keys /\ registry["gemini"] \in {CLOSED, Unregistered}
        THEN <<"gemini">> ELSE <<>>)

get_available_providers(keys, registry) ==
    (IF "openai" \in keys /\ registry["openai"] /= OPEN THEN <<"openai">> ELSE <<>>)
    \o (IF "gemini" \in keys /\ registry["gemini"] /= OPEN THEN <<"gemini">> ELSE <<>>)

\* _record_routing keeps the last 1000 entries
HistoryLimit == 1000

record_routing(routing_history, request_type, provider, metadata) ==
    LET h == Append(routing_history,
                    [request_type |-> request_type, provider |-> provider,
                     metadata |-> metadata])
    IN IF Len(h) > HistoryLimit
       THEN SubSeq(h, Len(h) - HistoryLimit + 1, Len(h))
       ELSE h

\* _get_selection_reason
get_selection_reason(strategy, request_type) ==
    CASE strategy.class = "StaticRoutingStrategy" -> <<"Best for", request_type>>
      [] strategy.class = "PerformanceRoutingStrategy" ->
           <<"Best performance on", strategy.metric>>
      [] strategy.class = "LoadBalancingStrategy" -> <<"Load balancing distribution">>
      [] OTHER -> <<"Hybrid strategy decision">>

\* mutant: an override is honoured only for a provider that is available
route_request_checked(r, request_type, override_provider, keys, registry, u) ==
    LET available == get_available_providers(keys, registry)
        name == IF override_provider \in Range(available)
                THEN override_provider ELSE "simulation"
        metadata == [strategy |-> IF name = override_provider
                                  THEN "override" ELSE "fallback",
                     reason |-> <<"Explicitly requested">>]
    IN [router |-> [r EXCEPT !.routing_history =
                        record_routing(@, request_type, name, metadata)],
        outcome |-> [kind |-> "returned", provider |-> name, metadata |-> metadata],
        available |-> available, asked |-> FALSE]

\* route_request: the router afterwards, what the caller gets, the list
\* get_available_providers() returned (empty when it was not called) and
\* whether the strategy was asked
route_request(r, request_type, override_provider, keys, registry, u) ==
    IF override_provider /= ""
    THEN LET metadata == [strategy |-> "override",
                          reason |-> <<"Explicitly requested">>]
         IN [router |-> [r EXCEPT !.routing_history =
                             record_routing(@, request_type, override_provider,
                                            metadata)],
             outcome |-> [kind |-> "returned", provider |-> override_provider,
                          metadata |-> metadata],
             available |-> <<>>, asked |-> FALSE]
    ELSE LET available == get_available_providers(keys, registry) IN
         IF available = <<>>
         THEN LET metadata == [strategy |-> "fallback",
                               reason |-> <<"No available providers">>]
              IN [router |-> [r EXCEPT !.routing_history =
                                  record_routing(@, request_type, "simulation",
                                                 metadata)],
                  outcome |-> [kind |-> "returned", provider |-> "simulation",
                               metadata |-> metadata],
                  available |-> available, asked |-> FALSE]
         ELSE LET s == select_provider(r.strategy, request_type, available, u)
                  r1 == [r EXCEPT !.strategy.provider_counts = s.provider_counts]
              IN
              IF s.outcome.kind = "raised"
              THEN [router |-> r1,
                    outcome |-> [kind |-> "raised", provider |-> s.outcome.value,
                                 metadata |-> [strategy |-> "none", reason |-> <<>>]],
                    available |-> available, asked |-> TRUE]
              ELSE LET selected == s.outcome.value
                       metadata == [strategy |-> r.strategy.class,
                                    reason |-> get_selection_reason(r.strategy,
                                                                    request_type)]
                   IN [router |-> [r1 EXCEPT !.routing_history =
                                       record_routing(@, request_type, selected,
                                                      metadata)],
                       outcome |-> [kind |-> "returned", provider |-> selected,
                                    metadata |-> metadata],
                       available |-> available, asked |-> TRUE]

(***************************************************************************)
(* ai_services: the provider services and ResilientAIServiceWrapper        *)
(*                                                                         *)
(* What the provider's API does when it is called is api: <<>> when it     *)
(* answers, else the message of the exception it raises.  A base service   *)
(* is "provider" (OpenAIService, GeminiService) or "raising" (a            *)
(* BaseAIService whose pozovi_ai lets the exception through).              *)
(***************************************************************************)
\* OpenAIService.pozovi_ai, GeminiService.pozovi_ai: the except branch
\* returns a sentence about the error
provider_pozovi_ai(api) ==
    [kind |-> "returned", value |-> IF api = <<>> THEN "answer" ELSE "apology"]

\* self.base_service.pozovi_ai(message)
base_service_pozovi_ai(base_service, api) ==
    IF base_service = "provider" THEN provider_pozovi_ai(api)
    ELSE IF api = <<>> THEN [kind |-> "returned", value |-> "answer"]
    ELSE [kind |-> "raised", value |-> api]

\* _retry_call: the wrapper of @retry("default") around the base service;
\* apis[i] is what the API does at the i-th attempt and slept the ticks
\* slept so far.  The delays are slept without jitter.
RECURSIVE retry_call_from(_, _, _, _)
retry_call_from(st, base_service, apis, slept) ==
    IF st.pc = "done"
    THEN [outcome |-> st.outcome, invocations |-> st.invocations, slept |-> slept]
    ELSE IF st.pc = "sleep"
    THEN LET st1 == wrapper_sleep(st, RETRY_CONFIGS.default, 0)
         IN retry_call_from(st1, base_service, apis, slept + st1.slept)
    ELSE LET r == base_service_pozovi_ai(base_service, apis[st.invocations + 1])
         IN retry_call_from(wrapper_attempt(st, RETRY_CONFIGS.default,
                                            r.kind = "returned",
                                            apis[st.invocations + 1]),
                            base_service, apis, slept)

\* the base services a wrapper is built around
BaseServices == {"provider", "raising"}

\* what the API does at one attempt: it answers, or raises an error that
\* is retried, or one that is not
Apis == {<<>>, <<"timeout">>, <<"Unauthorized">>}

\* what the API does at the attempts of one call; an attempt that follows an
\* answer or an error that is not retried is never made
Runs ==
    {apis \in [1..DefaultAttempts -> Apis] :
        \A i \in DOMAIN apis :
            (\E j \in 1..(i - 1) : apis[j] /= <<"timeout">>) => apis[i] = <<>>}

\* _retry_call(message), tabulated over the base services and the runs
retry_call ==
    [base_service \in BaseServices, apis \in Runs |->
        retry_call_from(wrapper_entry, base_service, apis, 0)]

\* ticks of the retry delays in a second of the breaker's clock
TicksPerSecond == 10 * MinDelay

\* the decorator of _circuit_breaker_call
ResilientThreshold == 3
ResilientTimeout == 30
DefaultSuccessThreshold == 2

\* the element of a one-element set: Only({e(x) : x \in {v}}) is e(v),
\* with v worked out once
Only(S) == CHOOSE x \in S : TRUE

\* mutant: the breaker sits inside the retry and counts every failed attempt
circuit_breaker_call_per_attempt(b, t, base_service, apis) ==
    LET r == retry_call[base_service, apis] IN
    Only({[cb |-> IF c.invoked
                  THEN [c.cb EXCEPT !.stats.failure_count = @ + (r.invocations - 1)]
                  ELSE c.cb,
           outcome |-> c.outcome, end |-> c.end,
           invocations |-> IF c.invoked THEN r.invocations ELSE 0] :
          c \in {call(b, t, r.outcome.kind = "returned",
                      r.slept \div TicksPerSecond)}})

\* _circuit_breaker_call entered at time t, the retried call taking as
\* long as its delays: the breaker afterwards, what the caller sees and how
\* often the base service was invoked
circuit_breaker_call(b, t, base_service, apis) ==
    LET r == retry_call[base_service, apis] IN
    Only({[cb |-> c.cb, outcome |-> c.outcome, end |-> c.end,
           invocations |-> IF c.invoked THEN r.invocations ELSE 0] :
          c \in {call(b, t, r.outcome.kind = "returned",
                      r.slept \div TicksPerSecond)}})

\* _setup_fallback_chain; the secondary option exists when both API keys
\* are configured
setup_fallback_chain(both_keys) ==
    LET c1 == add_option(FallbackChain, FallbackOption("glavni", "primary"))
        c2 == IF both_keys
              THEN add_option(c1, FallbackOption("rezerva", "secondary"))
              ELSE c1
    IN add_option(c2, FallbackOption("Simulacija", "tertiary"))

\* ResilientAIServiceWrapper.__init__ at time t; alternative tells whether
\* the other provider's service can be created and answers
ResilientAIServiceWrapper(base_service, both_keys, alternative, t) ==
    [base_service |-> base_service, alternative |-> alternative,
     breaker |-> CircuitBreaker(ResilientThreshold, ResilientTimeout,
                                DefaultSuccessThreshold, t),
     chain |-> setup_fallback_chain(both_keys)]

\* AIServiceFactory.reset()
factory_reset(g) == [g EXCEPT !.instance = "none"]

\* AIServiceFactory.get_service(): the instance it holds, or a new service
\* of Config.AI_PROVIDER, whose constructor raises when the service cannot
\* be created (~creatable)
get_service(g, creatable) ==
    IF g.instance /= "none"
    THEN [globals |-> g, outcome |-> "returned"]
    ELSE IF g.AI_PROVIDER \in {"openai", "gemini"} /\ creatable
         THEN [globals |-> [g EXCEPT !.instance = g.AI_PROVIDER], outcome |-> "returned"]
         ELSE [globals |-> g, outcome |-> "raised"]

\* what the alternative provider does when it is asked
Alternatives == {"answers", "not_created", "raises"}

\* mutant: the provider is restored after the answer, not in a finally
try_alternative_provider_no_finally(g, how) ==
    LET original_provider == g.AI_PROVIDER
        alt_provider == IF original_provider = "openai" THEN "gemini" ELSE "openai"
        s == get_service(factory_reset([g EXCEPT !.AI_PROVIDER = alt_provider]),
                         how /= "not_created")
        answered == s.outcome = "returned" /\ how = "answers"
    IN [globals |-> IF answered
                    THEN factory_reset([s.globals EXCEPT !.AI_PROVIDER = original_provider])
                    ELSE s.globals,
        outcome |-> IF answered THEN "returned" ELSE "raised",
        during |-> s.globals.AI_PROVIDER]

\* _try_alternative_provider: the try sets the other provider, resets the
\* factory, gets the service and asks it; the finally restores the provider
\* and resets the factory again.  during is Config.AI_PROVIDER while the
\* alternative was asked.
try_alternative_provider(g, how) ==
    LET original_provider == g.AI_PROVIDER
        alt_provider == IF original_provider = "openai" THEN "gemini" ELSE "openai"
        s == get_service(factory_reset([g EXCEPT !.AI_PROVIDER = alt_provider]),
                         how /= "not_created")
        answered == s.outcome = "returned" /\ how = "answers"
    IN [globals |-> factory_reset([s.globals EXCEPT !.AI_PROVIDER = original_provider]),
        outcome |-> IF answered THEN "returned" ELSE "raised",
        during |-> s.globals.AI_PROVIDER]

\* the handlers of the chain's options, p being what _circuit_breaker_call
\* does: each returns (TRUE) or raises
handlers(w, p) ==
    [n \in {w.chain.options[i].name : i \in DOMAIN w.chain.options} |->
        CASE n = "glavni" -> p.outcome = "returned"
          [] n = "rezerva" -> w.alternative
          [] OTHER -> TRUE]

\* the try and except of pozovi_ai around execute_with_fallback, whose
\* outcome is e
response(w, t, p, e) ==
    LET asked == \E i \in DOMAIN e.invoked : e.invoked[i].name = "glavni" IN
    [wrapper |-> [w EXCEPT !.breaker = IF asked THEN p.cb ELSE @,
                           !.chain = e.chain],
     outcome |-> IF e.result.kind = "returned"
                 THEN [kind |-> "returned", source |-> e.result.value]
                 ELSE [kind |-> "returned", source |-> "emergency"],
     primary |-> IF asked THEN p.outcome ELSE "none",
     invocations |-> IF asked THEN p.invocations ELSE 0,
     invoked |-> e.invoked,
     end |-> IF asked THEN p.end ELSE t]

\* mutant: pozovi_ai hands the message to _circuit_breaker_call
pozovi_ai_direct(w, t, apis) ==
    Only({[wrapper |-> [w EXCEPT !.breaker = p.cb],
           outcome |-> IF p.outcome = "returned"
                       THEN [kind |-> "returned", source |-> "glavni"]
                       ELSE [kind |-> "raised", source |-> p.outcome],
           primary |-> p.outcome, invocations |-> p.invocations,
           invoked |-> <<>>, end |-> p.end] :
          p \in {circuit_breaker_call(w.breaker, t, w.base_service, apis)}})

\* ResilientAIServiceWrapper.pozovi_ai entered at time t.  The result names
\* the option whose handler produced the response, or "emergency" for
\* _emergency_response.
pozovi_ai(w, t, apis) ==
    Only(UNION {{response(w, t, p, e) : e \in {execute(w.chain, handlers(w, p))}} :
                p \in {circuit_breaker_call(w.breaker, t, w.base_service, apis)}})

(***************************************************************************)
(* The breakers behind the wrappers and circuit_registry                   *)
(***************************************************************************)
\* circuit_breaker(...)(func): applying the decorator creates a breaker and
\* hands back the wrapped function, which refers to it
decorator(heap, t) ==
    [breakers |-> Append(heap, CircuitBreaker(ResilientThreshold, ResilientTimeout,
                                              DefaultSuccessThreshold, t)),
     circuit_breaker |-> Len(heap) + 1]

\* the class statement of ResilientAIServiceWrapper: the decorator of
\* _circuit_breaker_call is applied once, when the class body is executed
class_ResilientAIServiceWrapper(heap, t) ==
    Only({[breakers |-> d.breakers,
           class |-> [circuit_breaker |-> d.circuit_breaker]] :
          d \in {decorator(heap, t)}})

\* f"ai_{provider_name}"
CircuitName(provider_name) == <<"ai", provider_name>>

\* register_circuit(name, circuit)
register_circuit(registry, name, circuit) ==
    [n \in DOMAIN registry \cup {name} |-> IF n = name THEN circuit ELSE registry[n]]

\* ResilientAIServiceWrapper.__init__ with Config.AI_PROVIDER = provider:
\* self._circuit_breaker_call is the method of the class
wrapper_init(class, registry, base_service, provider) ==
    [instance |-> [base_service |-> base_service, provider_name |-> provider,
                   circuit_breaker |-> class.circuit_breaker],
     circuit_registry |-> register_circuit(registry, CircuitName(provider),
                                           class.circuit_breaker)]

(***************************************************************************)
(* What each component holds while another one is driven                   *)
(***************************************************************************)
\* a thread outside call(): seen is the length of stats.state_changes when
\* _should_attempt_reset() was evaluated, wrote the index of the entry the
\* reset step appended, lost the half_open_success_count it overwrote
Threads == {"A", "B"}
Outside == [pc |-> "outside", calls |-> 0, seen |-> 0, wrote |-> 0, lost |-> 0]

RaceIdle == th = [p \in Threads |-> Outside]

CircuitIdle ==
    /\ cb = CircuitBreaker(5, 60, 2, 0)
    /\ now = 0
    /\ last = [op |-> "init", pre |-> cb, t |-> 0, calls |-> 0,
               outcome |-> "none", invoked |-> FALSE, changes |-> <<>>]
    /\ streak = 0
    /\ probes = 0
    /\ RaceIdle

NoHistory == [raised |-> NoError, retryable |-> 0]

\* a fresh LoadBalancingStrategy(), not yet asked
BalanceIdle ==
    lb = [op |-> "init", provider_counts |-> <<>>, available |-> <<>>,
          fixed |-> TRUE, selects |-> 0, pre |-> <<>>,
          outcome |-> [kind |-> "none", value |-> "none"]]

\* the global smart_router = SmartProviderRouter(), not yet asked
RouterIdle ==
    /\ router = SmartProviderRouter(Strategy("HybridRoutingStrategy", "none"))
    /\ env = [keys |-> {}, registry |-> [p \in {"openai", "gemini"} |-> Unregistered]]
    /\ routed = [op |-> "init", override_provider |-> "",
                 available |-> <<>>, asked |-> FALSE, before |-> 0,
                 outcome |-> [kind |-> "none", provider |-> "none",
                              metadata |-> [strategy |-> "none", reason |-> <<>>]]]

\* no resilient service has been created
ServiceIdle ==
    /\ wrapper = ResilientAIServiceWrapper("provider", FALSE, FALSE, 0)
    /\ clock = 0
    /\ reply = [op |-> "init", calls |-> 0, waits |-> 0, failing |-> TRUE,
                pre |-> "none",
                outcome |-> [kind |-> "none", source |-> "none"],
                primary |-> "none", invocations |-> 0, invoked |-> <<>>,
                provider |-> "openai", how |-> "none", during |-> "none",
                elapsed |-> FALSE]
    /\ globals = [AI_PROVIDER |-> "openai", instance |-> "none"]

AnalyzerIdle == az = [op |-> "init", raw_content |-> <<>>, result |-> "chat"]

RetryIdle ==
    /\ rcfg = RETRY_CONFIGS.default
    /\ rt = wrapper_entry
    /\ fn = NoHistory
    /\ delays = <<>>

\* the protected function has not been declared healthy
RecoveryIdle == health = [healed |-> FALSE, from |-> CLOSED, steps |-> 0]

\* a hybrid strategy that has selected nothing
HybridIdle ==
    hy = [op |-> "init", provider_counts |-> <<>>, available |-> <<>>,
          request_type |-> "chat", selects |-> 0,
          outcome |-> [kind |-> "none", value |-> "none"]]

\* the class exists, no instance of it
RegistryIdle ==
    /\ breakers = class_ResilientAIServiceWrapper(<<>>, 0).breakers
    /\ wrapper_class = class_ResilientAIServiceWrapper(<<>>, 0).class
    /\ circuit_registry = <<>>
    /\ wrappers = <<>>
    /\ reg = [op |-> "init", calls |-> 0, now |-> 0, by |-> 0, before |-> breakers]

\* no function has been handed to execute_with_retry
SmartIdle ==
    /\ smart = SmartRetry
    /\ sr = [smart_entry("f", RETRY_CONFIGS.default) EXCEPT !.pc = "done"]
    /\ sfn = [calls |-> 0, ok |-> FALSE, raised |-> <<>>, before |-> smart]

FallbackIdle ==
    /\ chain = FallbackChain
    /\ fb = [op |-> "init", executes |-> 0, added |-> 0, pre |-> chain,
             handler |-> <<>>, invoked |-> <<>>, errors |-> <<>>,
             result |-> [kind |-> "none", value |-> 0]]

(***************************************************************************)
(* The circuit breaker as a state machine                                  *)
(***************************************************************************)
\* the state changes an operation performed: what it appended to the log
\* it was given
Appended(old, new) == SubSeq(new, Len(old) + 1, Len(new))

CircuitInit ==
    /\ now = 0
    /\ \E n \in 1..MaxThreshold, m \in 1..MaxThreshold, r \in 0..MaxTimeout :
          cb = CircuitBreaker(n, r, m, 0)
    /\ last = [op |-> "init", pre |-> cb, t |-> 0, calls |-> 0,
               outcome |-> "none", invoked |-> FALSE, changes |-> <<>>]
    /\ streak = 0
    /\ probes = 0
    /\ RaceIdle
    /\ RetryIdle
    /\ FallbackIdle
    /\ AnalyzerIdle
    /\ BalanceIdle
    /\ RouterIdle
    /\ ServiceIdle
    /\ SmartIdle
    /\ RegistryIdle
    /\ HybridIdle
    /\ RecoveryIdle

Tick ==
    /\ now < MaxTime
    /\ now' = now + 1
    /\ UNCHANGED <<cb, last, streak, probes, notCircuit>>

Call ==
    /\ last.calls < MaxCalls
    /\ \E ok \in BOOLEAN, d \in 0..MaxDur :
          LET r == call(cb, now, ok, d)
              done == Appended(cb.stats.state_changes, r.cb.stats.state_changes)
              base == IF \E i \in DOMAIN done : done[i].to = HALF_OPEN
                      THEN 0 ELSE probes
          IN
          /\ r.end <= MaxTime
          /\ cb' = r.cb
          /\ now' = r.end
          /\ last' = [op |-> "call", pre |-> cb, t |-> now,
                      calls |-> last.calls + 1,
                      outcome |-> r.outcome, invoked |-> r.invoked,
                      changes |-> done]
          /\ streak' = CASE r.outcome = "returned" -> 0
                         [] r.outcome = "raised" -> streak + 1
                         [] OTHER -> streak
          /\ probes' = IF r.outcome = "returned" THEN base + 1 ELSE base
    /\ UNCHANGED notCircuit

Reset ==
    /\ last.calls < MaxCalls
    /\ LET r == reset(cb, now) IN
          /\ cb' = r.cb
          /\ last' = [op |-> "reset", pre |-> cb, t |-> now,
                      calls |-> last.calls + 1,
                      outcome |-> "none", invoked |-> FALSE,
                      changes |-> Appended(cb.stats.state_changes, r.logged)]
    /\ streak' = 0
    /\ probes' = 0
    /\ UNCHANGED <<now, notCircuit>>

CircuitNext == Tick \/ Call \/ Reset

SpecCircuit == CircuitInit /\ [][CircuitNext]_vars

(***************************************************************************)
(* Two threads inside call() on one breaker; the class takes no lock      *)
(***************************************************************************)
RaceInit ==
    /\ now = 0
    /\ \E n \in 1..MaxThreshold, m \in 1..MaxThreshold, r \in 0..MaxTimeout :
          cb = CircuitBreaker(n, r, m, 0)
    /\ last = [op |-> "init", pre |-> cb, t |-> 0, calls |-> 0,
               outcome |-> "none", invoked |-> FALSE, changes |-> <<>>]
    /\ streak = 0
    /\ probes = 0
    /\ RaceIdle
    /\ RetryIdle
    /\ FallbackIdle
    /\ AnalyzerIdle
    /\ BalanceIdle
    /\ RouterIdle
    /\ ServiceIdle
    /\ SmartIdle
    /\ RegistryIdle
    /\ HybridIdle
    /\ RecoveryIdle

RaceTick ==
    /\ now < MaxTime
    /\ now' = now + 1
    /\ UNCHANGED <<cb, th, notRace>>

\* line 129: the thread enters call() and evaluates _should_attempt_reset()
Enter ==
    /\ \E p \in Threads :
          /\ th[p].pc = "outside"
          /\ th["A"].calls + th["B"].calls < MaxRaceCalls
          /\ th' = [th EXCEPT ![p] =
                       [pc |-> IF should_attempt_reset(cb, now)
                               THEN "record" ELSE "check",
                        calls |-> th[p].calls + 1,
                        seen |-> Len(cb.stats.state_changes),
                        wrote |-> 0, lost |-> 0]]
    /\ UNCHANGED <<cb, now, notRace>>

\* lines 130-133: _record_state_change(HALF_OPEN, ...)
Record ==
    /\ \E p \in Threads :
          /\ th[p].pc = "record"
          /\ cb' = record_state_change(cb, HALF_OPEN, "recovery", now)
          /\ th' = [th EXCEPT ![p].pc = "zero",
                              ![p].wrote = Len(cb.stats.state_changes) + 1]
    /\ UNCHANGED <<now, notRace>>

\* line 134: self.half_open_success_count = 0
Zero ==
    /\ \E p \in Threads :
          /\ th[p].pc = "zero"
          /\ cb' = [cb EXCEPT !.half_open_success_count = 0]
          /\ th' = [th EXCEPT ![p].pc = "check",
                              ![p].lost = cb.half_open_success_count]
    /\ UNCHANGED <<now, notRace>>

\* lines 137-142: an OPEN breaker rejects the call
Check ==
    /\ \E p \in Threads :
          /\ th[p].pc = "check"
          /\ IF cb.state = OPEN
             THEN /\ cb' = [cb EXCEPT !.stats = record_failure(@, now)]
                  /\ th' = [th EXCEPT ![p].pc = "outside"]
             ELSE /\ cb' = cb
                  /\ th' = [th EXCEPT ![p].pc = "func"]
    /\ UNCHANGED <<now, notRace>>

\* lines 145-152: func returns or raises, and the breaker is told
Complete ==
    /\ \E p \in Threads, ok \in BOOLEAN :
          /\ th[p].pc = "func"
          /\ cb' = IF ok THEN on_success(cb, now) ELSE on_failure(cb, now)
          /\ th' = [th EXCEPT ![p].pc = "outside"]
    /\ UNCHANGED <<now, notRace>>

RaceNext == RaceTick \/ Enter \/ Record \/ Zero \/ Check \/ Complete

SpecRace == RaceInit /\ [][RaceNext]_vars

(***************************************************************************)
(* calculate_delay applied to attempt numbers                              *)
(***************************************************************************)
Presets == {RETRY_CONFIGS[k] : k \in DOMAIN RETRY_CONFIGS}

DelayConfigs ==
    Presets \cup
    {RetryConfig(DefaultAttempts, MinDelay * i, MinDelay * m, b, j) :
        i \in 1..MaxInitial, m \in 1..MaxDelay, b \in 1..MaxBase, j \in BOOLEAN}

DelayInit ==
    /\ rcfg \in DelayConfigs
    /\ rt = wrapper_entry
    /\ fn = NoHistory
    /\ delays = <<>>
    /\ CircuitIdle
    /\ FallbackIdle
    /\ AnalyzerIdle
    /\ BalanceIdle
    /\ RouterIdle
    /\ ServiceIdle
    /\ SmartIdle
    /\ RegistryIdle
    /\ HybridIdle
    /\ RecoveryIdle

ComputeDelay ==
    /\ \E attempt \in 0..MaxAttempt, u \in -JitterSteps..JitterSteps :
          LET d == [attempt |-> attempt, delay |-> calculate_delay(attempt, rcfg, u)]
          IN delays' = IF delays = <<>> THEN <<d>> ELSE <<delays[Len(delays)], d>>
    /\ UNCHANGED <<rcfg, rt, fn, notRetry>>

DelayNext == ComputeDelay

SpecDelay == DelayInit /\ [][DelayNext]_vars

(***************************************************************************)
(* A function wrapped by retry_with_config(config)                         *)
(***************************************************************************)
RetryConfigs ==
    Presets \cup
    {RetryConfig(n, DefaultInitialDelay, DefaultMaxDelay, DefaultBase, j) :
        n \in 1..MaxAttempts, j \in BOOLEAN}

Messages == UNION {[1..n -> Vocabulary] : n \in 1..MaxWords}

\* the message names a word of the retry list
Listed(msg) == \E i \in DOMAIN msg : Lower(msg[i]) \in retry_errors

\* the message names a word of the no-retry list
Denied(msg) == \E i \in DOMAIN msg : Lower(msg[i]) \in no_retry_errors

RetryInit ==
    /\ rcfg \in RetryConfigs
    /\ rt = wrapper_entry
    /\ fn = NoHistory
    /\ delays = <<>>
    /\ CircuitIdle
    /\ FallbackIdle
    /\ AnalyzerIdle
    /\ BalanceIdle
    /\ RouterIdle
    /\ ServiceIdle
    /\ SmartIdle
    /\ RegistryIdle
    /\ HybridIdle
    /\ RecoveryIdle

\* the wrapped function is called
RetryCall ==
    /\ rt.pc = "done"
    /\ rt' = wrapper_entry
    /\ fn' = NoHistory
    /\ UNCHANGED <<rcfg, delays, notRetry>>

Returns ==
    /\ rt.pc = "loop"
    /\ rt' = wrapper_attempt(rt, rcfg, TRUE, <<>>)
    /\ fn' = [fn EXCEPT !.raised = NoError]
    /\ UNCHANGED <<rcfg, delays, notRetry>>

Raises ==
    /\ rt.pc = "loop"
    /\ \E msg \in Messages :
          /\ rt' = wrapper_attempt(rt, rcfg, FALSE, msg)
          /\ fn' = [raised |-> [id |-> rt.invocations + 1, msg |-> msg],
                    retryable |-> IF Listed(msg) THEN fn.retryable + 1
                                                 ELSE fn.retryable]
    /\ UNCHANGED <<rcfg, delays, notRetry>>

Sleep ==
    /\ rt.pc = "sleep"
    /\ \E u \in -JitterSteps..JitterSteps : rt' = wrapper_sleep(rt, rcfg, u)
    /\ UNCHANGED <<rcfg, fn, delays, notRetry>>

RetryNext == RetryCall \/ Returns \/ Raises \/ Sleep

SpecRetry == RetryInit /\ [][RetryNext]_vars

(***************************************************************************)
(* Functions handed to SmartRetry.execute_with_retry                       *)
(***************************************************************************)
\* func.__name__ of the functions
FuncNames == {"f", "g"}

\* the config argument; None stands for the preset "default"
SmartConfigs ==
    Presets \cup
    {RetryConfig(n, DefaultInitialDelay, DefaultMaxDelay, DefaultBase, TRUE) :
        n \in 1..MaxAttempts}

\* what func raises: an error of the retry list, one of the no-retry list
\* and one of neither
SmartMessages == {<<"timeout">>, <<"Unauthorized">>, <<"kaboom">>}

SmartInit ==
    /\ smart = SmartRetry
    /\ \E config \in SmartConfigs :
          sr = [smart_entry("f", config) EXCEPT !.pc = "done"]
    /\ sfn = [calls |-> 0, ok |-> FALSE, raised |-> <<>>, before |-> smart]
    /\ CircuitIdle
    /\ RetryIdle
    /\ FallbackIdle
    /\ AnalyzerIdle
    /\ BalanceIdle
    /\ RouterIdle
    /\ ServiceIdle
    /\ RegistryIdle
    /\ HybridIdle
    /\ RecoveryIdle

\* execute_with_retry(func, config=config) is entered
SmartCall ==
    /\ sr.pc = "done"
    /\ sfn.calls < MaxSmartCalls
    /\ \E func_name \in FuncNames : sr' = smart_entry(func_name, sr.config)
    /\ sfn' = [calls |-> sfn.calls + 1, ok |-> FALSE, raised |-> <<>>,
               before |-> smart]
    /\ UNCHANGED <<smart, notSmart>>

\* func returns
SmartReturns ==
    /\ sr.pc = "loop"
    /\ \E r \in {smart_attempt(smart, sr, TRUE, <<>>)} :
          /\ smart' = r.smart
          /\ sr' = r.st
    /\ sfn' = [sfn EXCEPT !.ok = TRUE, !.raised = <<>>]
    /\ UNCHANGED notSmart

\* func raises
SmartRaises ==
    /\ sr.pc = "loop"
    /\ \E msg \in SmartMessages :
          /\ \E r \in {smart_attempt(smart, sr, FALSE, msg)} :
                /\ smart' = r.smart
                /\ sr' = r.st
          /\ sfn' = [sfn EXCEPT !.ok = FALSE, !.raised = msg]
    /\ UNCHANGED notSmart

\* time.sleep(delay)
SmartSleep ==
    /\ sr.pc = "sleep"
    /\ \E u \in {-JitterSteps, 0, JitterSteps} : sr' = smart_sleep(sr, u)
    /\ UNCHANGED <<smart, sfn, notSmart>>

SmartNext == SmartCall \/ SmartReturns \/ SmartRaises \/ SmartSleep

SpecSmart == SmartInit /\ [][SmartNext]_vars

(***************************************************************************)
(* A fallback chain                                                        *)
(***************************************************************************)
Levels == {FallbackLevel[i] : i \in DOMAIN FallbackLevel}

\* the names of a list of options
Names(options) == {options[i].name : i \in DOMAIN options}

FallbackInit ==
    /\ FallbackIdle
    /\ CircuitIdle
    /\ RetryIdle
    /\ AnalyzerIdle
    /\ BalanceIdle
    /\ RouterIdle
    /\ ServiceIdle
    /\ SmartIdle
    /\ RegistryIdle
    /\ HybridIdle
    /\ RecoveryIdle

AddOption ==
    /\ fb.added < MaxOptions
    /\ \E level \in Levels :
          /\ chain' = add_option(chain, FallbackOption(fb.added + 1, level))
          /\ fb' = [fb EXCEPT !.op = "add_option", !.added = @ + 1, !.pre = chain]
    /\ UNCHANGED notFallback

Execute ==
    /\ fb.executes < MaxExecutes
    /\ \E handler \in [1..fb.added -> BOOLEAN] :
          LET r == execute(chain, handler) IN
          /\ chain' = r.chain
          /\ fb' = [op |-> "execute", executes |-> fb.executes + 1,
                    added |-> fb.added, pre |-> chain,
                    handler |-> [n \in Names(r.invoked) |-> handler[n]],
                    invoked |-> r.invoked, errors |-> r.errors,
                    result |-> r.result]
    /\ UNCHANGED notFallback

FallbackNext == AddOption \/ Execute

SpecFallback == FallbackInit /\ [][FallbackNext]_vars

(***************************************************************************)
(* RequestAnalyzer.analyze applied to messages                             *)
(***************************************************************************)
Tokens == {"Zdravo", ",", "kako", "si", "?", "napisi", "def "}

Texts == UNION {[1..n -> Tokens] : n \in 1..MaxTokens}

\* a message waits to be analyzed
AnalyzeInit ==
    /\ \E raw_content \in Texts :
          az = [op |-> "init", raw_content |-> raw_content, result |-> "chat"]
    /\ CircuitIdle
    /\ RetryIdle
    /\ FallbackIdle
    /\ BalanceIdle
    /\ RouterIdle
    /\ ServiceIdle
    /\ SmartIdle
    /\ RegistryIdle
    /\ HybridIdle
    /\ RecoveryIdle

Analyze ==
    /\ az.op = "init"
    /\ az' = [op |-> "analyze", raw_content |-> az.raw_content,
              result |-> analyze(az.raw_content)]
    /\ UNCHANGED notAnalyzer

AnalyzeNext == Analyze

SpecAnalyze == AnalyzeInit /\ [][AnalyzeNext]_vars

(***************************************************************************)
(* A LoadBalancingStrategy object asked for providers                      *)
(***************************************************************************)
Providers == {"openai", "gemini", "simulation"}

\* the lists of available providers: no provider twice
Lists ==
    {l \in UNION {[1..n -> Providers] : n \in 0..Cardinality(Providers)} :
        \A i, j \in DOMAIN l : i /= j => l[i] /= l[j]}

BalanceInit ==
    /\ \E l \in Lists :
          lb = [op |-> "init", provider_counts |-> <<>>, available |-> l,
                fixed |-> TRUE, selects |-> 0, pre |-> <<>>,
                outcome |-> [kind |-> "none", value |-> "none"]]
    /\ CircuitIdle
    /\ RetryIdle
    /\ FallbackIdle
    /\ AnalyzerIdle
    /\ RouterIdle
    /\ ServiceIdle
    /\ SmartIdle
    /\ RegistryIdle
    /\ HybridIdle
    /\ RecoveryIdle

\* select_provider(request, available_providers) with the current list
Select ==
    /\ lb.selects < MaxSelects
    /\ \E u \in 1..Cardinality(Providers) :
          LET r == load_balancing_select_provider(lb.provider_counts, lb.available, u) IN
          lb' = [lb EXCEPT !.op = "select", !.selects = @ + 1,
                           !.pre = lb.provider_counts,
                           !.provider_counts = r.provider_counts,
                           !.outcome = r.outcome]
    /\ UNCHANGED notBalance

\* the next call comes with another list
Switch ==
    /\ \E l \in Lists \ {lb.available} :
          lb' = [lb EXCEPT !.op = "switch", !.available = l, !.fixed = FALSE]
    /\ UNCHANGED notBalance

BalanceNext == Select \/ Switch

SpecBalance == BalanceInit /\ [][BalanceNext]_vars

(***************************************************************************)
(* A SmartProviderRouter asked to route requests                           *)
(***************************************************************************)
Strategies ==
    {Strategy(class, "none") :
        class \in {"StaticRoutingStrategy", "LoadBalancingStrategy",
                   "HybridRoutingStrategy"}}
    \cup {Strategy("PerformanceRoutingStrategy", metric) :
             metric \in {"latency", "success_rate", "cost"}}

\* the types of the requests routed: one that the static rules send to
\* gemini, one that they send to openai
Requested == {"chat", "code"}

\* override_provider: none, a provider, a name that is no provider
Overrides == {"", "gemini", "mistral"}

Keyed == {"openai", "gemini"}

Registries == [Keyed -> CircuitState \cup {Unregistered}]

RouterInit ==
    /\ \E strategy \in Strategies : router = SmartProviderRouter(strategy)
    /\ \E keys \in SUBSET Keyed, registry \in Registries :
          env = [keys |-> keys, registry |-> registry]
    /\ routed = [op |-> "init", override_provider |-> "",
                 available |-> <<>>, asked |-> FALSE, before |-> 0,
                 outcome |-> [kind |-> "none", provider |-> "none",
                              metadata |-> [strategy |-> "none", reason |-> <<>>]]]
    /\ CircuitIdle
    /\ RetryIdle
    /\ FallbackIdle
    /\ AnalyzerIdle
    /\ BalanceIdle
    /\ ServiceIdle
    /\ SmartIdle
    /\ RegistryIdle
    /\ HybridIdle
    /\ RecoveryIdle

\* route_request(request, override_provider)
Route ==
    /\ Len(router.routing_history) < MaxRoutes
    /\ \E request_type \in Requested, override_provider \in Overrides,
          u \in 1..Cardinality(Keyed) :
          LET r == route_request(router, request_type, override_provider,
                                 env.keys, env.registry, u)
          IN
          /\ router' = r.router
          /\ routed' = [op |-> "route_request",
                        override_provider |-> override_provider,
                        available |-> r.available, asked |-> r.asked,
                        before |-> Len(router.routing_history),
                        outcome |-> r.outcome]
    /\ UNCHANGED <<env, notRouter>>

RouterNext == Route

SpecRouter == RouterInit /\ [][RouterNext]_vars

(***************************************************************************)
(* The circuit breaker around a function that recovers                     *)
(*                                                                         *)
(* The same breaker, clock and operations as above.  The function fails    *)
(* or returns as it likes until it is healed; from then on it returns.     *)
(* Time keeps advancing and call() keeps being invoked: both steps are     *)
(* weakly fair.  The counters of the model are kept finite by stopping the *)
(* clock and the callers where nothing is left to wait for: past MaxTime   *)
(* and MaxFaulty, time advances only while an OPEN breaker waits for its   *)
(* timeout, and call() is invoked only when it would be admitted by a      *)
(* breaker that is not CLOSED; RecoverySteps such steps are more than a    *)
(* recovery takes.                                                         *)
(***************************************************************************)
\* the ticks of the longest timeout, the call that starts probing and the
\* probes of the highest success_threshold
RecoverySteps == (MaxTimeout + 1) + 1 + MaxThreshold

RecoveryInit ==
    /\ now = 0
    /\ \E n \in 1..MaxThreshold, m \in 1..MaxThreshold, r \in 0..MaxTimeout :
          cb = CircuitBreaker(n, r, m, 0)
    /\ last = [op |-> "init", pre |-> cb, t |-> 0, calls |-> 0,
               outcome |-> "none", invoked |-> FALSE, changes |-> <<>>]
    /\ streak = 0
    /\ probes = 0
    /\ health = [healed |-> FALSE, from |-> CLOSED, steps |-> 0]
    /\ RaceIdle
    /\ RetryIdle
    /\ FallbackIdle
    /\ AnalyzerIdle
    /\ BalanceIdle
    /\ RouterIdle
    /\ ServiceIdle
    /\ SmartIdle
    /\ RegistryIdle
    /\ HybridIdle

\* an OPEN breaker whose recovery timeout has not elapsed
Waiting == cb.state = OPEN /\ ~should_attempt_reset(cb, now)

\* a call now would be admitted by a breaker that is not CLOSED
Probing == cb.state = HALF_OPEN \/ should_attempt_reset(cb, now)

RecoveryTick ==
    /\ \/ now < MaxTime /\ UNCHANGED health
       \/ /\ now >= MaxTime
          /\ health.healed
          /\ Waiting
          /\ health.steps < RecoverySteps
          /\ health' = [health EXCEPT !.steps = @ + 1]
    /\ now' = now + 1
    /\ UNCHANGED <<cb, last, streak, probes, notRecovery>>

RecoveryCall ==
    /\ \E ok \in BOOLEAN, d \in {0, MaxDur} :
          LET r == call(cb, now, ok, d)
              done == Appended(cb.stats.state_changes, r.cb.stats.state_changes)
              base == IF \E i \in DOMAIN done : done[i].to = HALF_OPEN
                      THEN 0 ELSE probes
          IN
          /\ health.healed => ok
          /\ \/ last.calls < MaxFaulty /\ r.end <= MaxTime /\ UNCHANGED health
             \/ /\ last.calls >= MaxFaulty \/ r.end > MaxTime
                /\ health.healed
                /\ Probing
                /\ health.steps < RecoverySteps
                /\ health' = [health EXCEPT !.steps = @ + 1]
          /\ cb' = r.cb
          /\ now' = r.end
          /\ last' = [op |-> "call", pre |-> cb, t |-> now,
                      calls |-> last.calls + 1,
                      outcome |-> r.outcome, invoked |-> r.invoked,
                      changes |-> done]
          /\ streak' = CASE r.outcome = "returned" -> 0
                         [] r.outcome = "raised" -> streak + 1
                         [] OTHER -> streak
          /\ probes' = IF r.outcome = "returned" THEN base + 1 ELSE base
    /\ UNCHANGED notRecovery

RecoveryReset ==
    /\ last.calls < MaxFaulty
    /\ LET r == reset(cb, now) IN
          /\ cb' = r.cb
          /\ last' = [op |-> "reset", pre |-> cb, t |-> now,
                      calls |-> last.calls + 1,
                      outcome |-> "none", invoked |-> FALSE,
                      changes |-> Appended(cb.stats.state_changes, r.logged)]
    /\ streak' = 0
    /\ probes' = 0
    /\ UNCHANGED <<now, health, notRecovery>>

\* from here on the protected function returns whenever it is invoked
Heal ==
    /\ ~health.healed
    /\ health' = [health EXCEPT !.healed = TRUE, !.from = cb.state]
    /\ UNCHANGED <<cbVars, notRecovery>>

RecoveryNext == RecoveryTick \/ RecoveryCall \/ RecoveryReset \/ Heal

SpecRecovery ==
    /\ RecoveryInit
    /\ [][RecoveryNext]_vars
    /\ WF_vars(RecoveryTick)
    /\ WF_vars(RecoveryCall)

(***************************************************************************)
(* A hybrid strategy asked for one provider after the other                *)
(***************************************************************************)
HybridInit ==
    /\ \E l \in Lists : hy = [op |-> "init", provider_counts |-> <<>>, available |-> l,
                               request_type |-> "chat", selects |-> 0,
                               outcome |-> [kind |-> "none", value |-> "none"]]
    /\ CircuitIdle
    /\ RetryIdle
    /\ FallbackIdle
    /\ AnalyzerIdle
    /\ BalanceIdle
    /\ RouterIdle
    /\ ServiceIdle
    /\ SmartIdle
    /\ RegistryIdle
    /\ RecoveryIdle

\* select_provider(request, available_providers) with the current list
HybridSelect ==
    /\ hy.selects < MaxSelects
    /\ \E request_type \in Range(RequestType), u \in 1..Cardinality(Providers) :
          \E r \in {hybrid_select_provider(hy.provider_counts, request_type,
                                           hy.available, u)} :
              hy' = [hy EXCEPT !.op = "select", !.selects = @ + 1,
                               !.request_type = request_type,
                               !.provider_counts = r.provider_counts,
                               !.outcome = r.outcome]
    /\ UNCHANGED notHybrid

\* the next call comes with another list
HybridSwitch ==
    /\ \E l \in Lists \ {hy.available} :
          hy' = [hy EXCEPT !.op = "switch", !.available = l]
    /\ UNCHANGED notHybrid

HybridNext == HybridSelect \/ HybridSwitch

SpecHybrid == HybridInit /\ [][HybridNext]_vars

(***************************************************************************)
(* Resilient services created for the providers, and called                *)
(***************************************************************************)
RegistryInit ==
    /\ RegistryIdle
    /\ CircuitIdle
    /\ RetryIdle
    /\ FallbackIdle
    /\ AnalyzerIdle
    /\ BalanceIdle
    /\ RouterIdle
    /\ ServiceIdle
    /\ SmartIdle
    /\ HybridIdle
    /\ RecoveryIdle

\* create_resilient_service() with Config.AI_PROVIDER = provider
CreateWrapper ==
    /\ Len(wrappers) < MaxWrappers
    /\ \E provider \in Keyed, base_service \in BaseServices :
          \E w \in {wrapper_init(wrapper_class, circuit_registry, base_service, provider)} :
              /\ wrappers' = Append(wrappers, w.instance)
              /\ circuit_registry' = w.circuit_registry
    /\ reg' = [reg EXCEPT !.op = "create", !.by = Len(wrappers) + 1, !.before = breakers]
    /\ UNCHANGED <<breakers, wrapper_class, notRegistry>>

\* the primary option of one of the instances handles a message
CallWrapper ==
    /\ reg.calls < MaxWrapperCalls
    /\ \E i \in DOMAIN wrappers, apis \in Runs :
          \E p \in {circuit_breaker_call(breakers[wrappers[i].circuit_breaker], reg.now,
                                         wrappers[i].base_service, apis)} :
              /\ breakers' = [breakers EXCEPT ![wrappers[i].circuit_breaker] = p.cb]
              /\ reg' = [op |-> "call", calls |-> reg.calls + 1, now |-> p.end,
                         by |-> i, before |-> breakers]
    /\ UNCHANGED <<wrapper_class, circuit_registry, wrappers, notRegistry>>

RegistryNext == CreateWrapper \/ CallWrapper

SpecRegistry == RegistryInit /\ [][RegistryNext]_vars

(***************************************************************************)
(* A resilient service asked for answers                                   *)
(***************************************************************************)
ServiceInit ==
    /\ \E base_service \in BaseServices, both_keys \in BOOLEAN, alternative \in BOOLEAN :
          \* the other provider can only answer when its key is configured
          /\ alternative => both_keys
          /\ wrapper = ResilientAIServiceWrapper(base_service, both_keys, alternative, 0)
    /\ clock = 0
    \* the wrapper is built around the service that get_service() created
    /\ \E provider \in {"openai", "gemini"} :
          /\ globals = [AI_PROVIDER |-> provider, instance |-> provider]
          /\ reply = [op |-> "init", calls |-> 0, waits |-> 0, failing |-> TRUE,
                      pre |-> "none",
                      outcome |-> [kind |-> "none", source |-> "none"],
                      primary |-> "none", invocations |-> 0, invoked |-> <<>>,
                      provider |-> provider, how |-> "none", during |-> "none",
                      elapsed |-> FALSE]
    /\ CircuitIdle
    /\ RetryIdle
    /\ FallbackIdle
    /\ AnalyzerIdle
    /\ BalanceIdle
    /\ RouterIdle
    /\ SmartIdle
    /\ RegistryIdle
    /\ HybridIdle
    /\ RecoveryIdle

\* service.pozovi_ai(poruka)
PozoviAi ==
    /\ reply.calls < MaxPozovi
    /\ \E apis \in Runs : \E r \in {pozovi_ai(wrapper, clock, apis)} :
          \* the handler of the secondary option, when the chain got to it
          \E how \in IF ~\E i \in DOMAIN r.invoked : r.invoked[i].name = "rezerva"
                      THEN {"none"}
                      ELSE IF wrapper.alternative THEN {"answers"}
                           ELSE Alternatives \ {"answers"} :
          \E a \in {IF how = "none"
                     THEN [globals |-> globals, outcome |-> "none", during |-> "none"]
                     ELSE try_alternative_provider(globals, how)} :
              /\ wrapper' = r.wrapper
              /\ clock' = r.end
              /\ globals' = a.globals
              /\ reply' = [op |-> "pozovi_ai", calls |-> reply.calls + 1,
                           waits |-> reply.waits,
                           failing |-> reply.failing /\ \A i \in 1..r.invocations : apis[i] /= <<>>,
                           pre |-> wrapper.breaker.state,
                           outcome |-> r.outcome, primary |-> r.primary,
                           invocations |-> r.invocations, invoked |-> r.invoked,
                           provider |-> globals.AI_PROVIDER, how |-> how,
                           during |-> a.during,
                           elapsed |-> should_attempt_reset(wrapper.breaker, clock)]
    /\ UNCHANGED notService

\* the pause of test_circuit_breaker, longer than the recovery timeout
TestSleep == 35

\* time passes between two calls: the recovery timeout to the second, or
\* the pause of the test
Wait ==
    /\ reply.waits < MaxWaits
    /\ \E d \in {ResilientTimeout, TestSleep} : clock' = clock + d
    /\ reply' = [reply EXCEPT !.op = "wait", !.waits = @ + 1]
    /\ UNCHANGED <<wrapper, globals, notService>>

ServiceNext == PozoviAi \/ Wait

SpecService == ServiceInit /\ [][ServiceNext]_vars

(***************************************************************************)
(* Claims about the circuit breaker (under SpecCircuit)                    *)
(***************************************************************************)
FourTransitions ==
    {<<CLOSED, OPEN>>, <<OPEN, HALF_OPEN>>, <<HALF_OPEN, CLOSED>>, <<HALF_OPEN, OPEN>>}

Legal(e) == <<e.from, e.to>> \in FourTransitions

AllLegal(changes) == \A i \in DOMAIN changes : Legal(changes[i])

\* C1, as stated: every state change an operation performs (call() or
\* reset()), and every entry of stats.state_changes, is one of the four
\* transitions CLOSED->OPEN, OPEN->HALF_OPEN, HALF_OPEN->CLOSED,
\* HALF_OPEN->OPEN.
C1_OnlyFourTransitions ==
    /\ AllLegal(last.changes)
    /\ AllLegal(cb.stats.state_changes)

\* C1, amended: every state change performed by call() and every entry
\* that stats.state_changes holds after an operation is one of the four
\* transitions; reset() performs exactly one more change, from whatever the
\* state is to CLOSED (OPEN->CLOSED and CLOSED->CLOSED included), which is
\* logged only in the statistics that reset() discards.
C1_CallTransitions ==
    /\ last.op = "call" => AllLegal(last.changes)
    /\ AllLegal(cb.stats.state_changes)
    /\ last.op = "reset" =>
          /\ Len(last.changes) = 1
          /\ last.changes[1].from = last.pre.state
          /\ last.changes[1].to = CLOSED
          /\ cb.state = CLOSED
          /\ cb.stats.state_changes = <<>>

Kinds(changes) == {<<changes[i].from, changes[i].to>> : i \in DOMAIN changes}

\* the log shows all four transitions, and the latest call performed two
C1_Witness ==
    /\ Kinds(cb.stats.state_changes) = FourTransitions
    /\ last.op = "call"
    /\ Len(last.changes) = 2

\* C2: a call() entered in OPEN no later than recovery_timeout seconds after
\* the breaker entered OPEN raises CircuitOpenError, does not invoke the
\* operation and leaves the state OPEN.
C2_RejectedWhileOpen ==
    (/\ last.op = "call"
     /\ last.pre.state = OPEN
     /\ last.t <= last.pre.state_changed_at + last.pre.recovery_timeout)
    => /\ last.outcome = "CircuitOpenError"
       /\ ~last.invoked
       /\ cb.state = OPEN
       /\ last.changes = <<>>

\* a call rejected at the very end of a non-zero timeout
C2_Witness ==
    /\ last.op = "call"
    /\ last.pre.state = OPEN
    /\ last.pre.recovery_timeout > 0
    /\ last.t = last.pre.state_changed_at + last.pre.recovery_timeout
    /\ last.outcome = "CircuitOpenError"

\* C3: a CLOSED breaker becomes OPEN exactly on the call whose failure is
\* the failure_threshold-th in a row since the last success or reset, and
\* stays CLOSED with fewer.
C3_OpensAtThreshold ==
    /\ (last.op = "call" /\ last.pre.state = CLOSED) =>
          (cb.state = OPEN <=>
              (last.outcome = "raised" /\ streak = cb.failure_threshold))
    /\ cb.state = CLOSED => streak < cb.failure_threshold

\* a breaker with threshold 2 opens again after a full recovery cycle
C3_Witness ==
    /\ last.op = "call"
    /\ last.pre.state = CLOSED
    /\ cb.state = OPEN
    /\ cb.failure_threshold = 2
    /\ streak = 2
    /\ Len(last.pre.stats.state_changes) >= 3

\* the latest operation was invoked with the breaker HALF_OPEN
ProbeCall ==
    /\ last.op = "call"
    /\ last.invoked
    /\ last.pre.state \in {OPEN, HALF_OPEN}

\* C4: a HALF_OPEN breaker becomes CLOSED exactly when success_threshold
\* operations have succeeded since HALF_OPEN was entered; successes of an
\* earlier HALF_OPEN episode do not count.
C4_ClosesAfterProbes ==
    /\ ProbeCall =>
          (cb.state = CLOSED <=>
              (last.outcome = "returned" /\ probes = cb.success_threshold))
    /\ cb.state = HALF_OPEN =>
          /\ probes < cb.success_threshold
          /\ cb.half_open_success_count = probes

\* a breaker with success_threshold 2 closes in its second HALF_OPEN
\* episode, the first one having seen a success and then a failure
C4_Witness ==
    /\ ProbeCall
    /\ cb.state = CLOSED
    /\ cb.success_threshold = 2
    /\ \E i \in DOMAIN cb.stats.state_changes :
          /\ cb.stats.state_changes[i].reason = "probe_failed"
          /\ cb.stats.success_count >= 3

\* C5: a call() entered in OPEN more than recovery_timeout seconds after the
\* breaker entered OPEN moves it to HALF_OPEN and invokes the operation; the
\* state HALF_OPEN is entered by call() only.
C5_ProbeAfterTimeout ==
    /\ (/\ last.op = "call"
        /\ last.pre.state = OPEN
        /\ last.t > last.pre.state_changed_at + last.pre.recovery_timeout)
       => /\ last.invoked
          /\ last.outcome \in {"returned", "raised"}
          /\ Len(last.changes) >= 1
          /\ last.changes[1].from = OPEN
          /\ last.changes[1].to = HALF_OPEN
          /\ last.changes[1].time = last.t
    /\ \A i \in DOMAIN last.changes :
          last.changes[i].to = HALF_OPEN => last.op = "call"
    /\ cb.state = HALF_OPEN =>
          /\ last.op = "call"
          /\ \/ last.pre.state = HALF_OPEN
             \/ /\ last.pre.state = OPEN
                /\ Len(last.changes) = 1
                /\ last.changes[1].to = HALF_OPEN

\* a probe admitted after calls were rejected during the timeout
C5_Witness ==
    /\ last.op = "call"
    /\ last.pre.state = OPEN
    /\ last.t > last.pre.state_changed_at + last.pre.recovery_timeout
    /\ last.pre.stats.last_failure_time > last.pre.state_changed_at
    /\ last.invoked
    /\ cb.state = HALF_OPEN

(***************************************************************************)
(* Claims about the retry handler                                          *)
(***************************************************************************)
\* C6 (under SpecDelay): calculate_delay never decreases from a smaller to
\* a greater attempt number, and never exceeds config.max_delay.
C6_DelayMonotoneAndCapped ==
    /\ \A i \in DOMAIN delays : delays[i].delay <= rcfg.max_delay
    /\ \A i, j \in DOMAIN delays :
          delays[i].attempt < delays[j].attempt =>
              delays[i].delay <= delays[j].delay

Unclassified(msg) == ~Listed(msg) /\ ~Denied(msg)

\* C7 (under SpecRetry): when func raises an exception whose message names
\* no word of either list, the wrapper re-raises that exception at once:
\* func is not invoked again, no delay is slept for that failure and no
\* RetryError is raised.
C7_UnclassifiedReraised ==
    (fn.raised /= NoError /\ Unclassified(fn.raised.msg)) =>
        /\ rt.pc = "done"
        /\ rt.outcome = [kind |-> "reraised", error |-> fn.raised]
        /\ rt.invocations = fn.raised.id
        /\ rt.sleeps = rt.invocations - 1

\* an unclassified exception, spelt with capitals, at the second attempt
C7_Witness ==
    /\ fn.raised.id = 2
    /\ Unclassified(fn.raised.msg)
    /\ fn.raised.msg[1] = "ValueError"
    /\ rt.outcome.kind = "reraised"

\* every invocation of func so far raised an exception of the retry list
AllRetryable == rt.invocations > 0 /\ fn.retryable = rt.invocations

\* C8 (under SpecRetry): when every attempt raises a retryable exception,
\* func is invoked max_attempts times, a delay is slept after every attempt
\* but the last, and the wrapper raises RetryError with the last attempt's
\* exception as last_error.
C8_ExhaustedRaisesRetryError ==
    /\ AllRetryable =>
          IF rt.invocations = rcfg.max_attempts
          THEN /\ rt.pc = "done"
               /\ rt.outcome = [kind |-> "RetryError", error |-> fn.raised]
               /\ fn.raised.id = rcfg.max_attempts
               /\ rt.sleeps = rcfg.max_attempts - 1
          ELSE /\ rt.pc \in {"sleep", "loop"}
               /\ rt.invocations < rcfg.max_attempts
               /\ rt.sleeps = IF rt.pc = "sleep" THEN rt.invocations - 1
                                               ELSE rt.invocations
    /\ rt.outcome.kind = "RetryError" =>
          /\ AllRetryable
          /\ rt.invocations = rcfg.max_attempts

\* the default configuration exhausted: three invocations, two sleeps
C8_Witness ==
    /\ rcfg = RETRY_CONFIGS.default
    /\ rt.outcome.kind = "RetryError"
    /\ rt.invocations = 3
    /\ rt.sleeps = 2
    /\ rt.outcome.error.id = 3

\* C9 (under SpecRetry): an exception whose message names a word of the
\* no-retry list is not retried, whatever else the message names:
\* should_retry is False for it and the wrapper re-raises it.
C9_DenyListWins ==
    (fn.raised /= NoError /\ Denied(fn.raised.msg)) =>
        /\ ~should_retry(fn.raised.msg)
        /\ rt.pc = "done"
        /\ rt.outcome = [kind |-> "reraised", error |-> fn.raised]

(***************************************************************************)
(* Claims about the fallback chain (under SpecFallback)                    *)
(***************************************************************************)
\* x comes before y: a lower level, or the same level and added earlier
Precedes(x, y) ==
    \/ LevelIndex(x.level) < LevelIndex(y.level)
    \/ /\ LevelIndex(x.level) = LevelIndex(y.level)
       /\ x.name < y.name

\* C10: execute() invokes the handlers in ascending order of level, options
\* of one level in the order they were added, whatever the order of the
\* add_option() calls; it returns the result of the first handler that does
\* not raise and invokes none after it.
C10_PriorityOrder ==
    fb.op = "execute" =>
        LET inv == fb.invoked
            opts == {fb.pre.options[i] : i \in DOMAIN fb.pre.options}
        IN
        /\ \A i \in DOMAIN inv : inv[i] \in opts
        /\ \A i, j \in DOMAIN inv : i < j => Precedes(inv[i], inv[j])
        /\ \A i \in DOMAIN inv : \A o \in opts :
              Precedes(o, inv[i]) => \E j \in 1..(i - 1) : inv[j] = o
        /\ \A i \in 1..(Len(inv) - 1) : ~fb.handler[inv[i].name]
        /\ IF inv /= <<>> /\ fb.handler[inv[Len(inv)].name]
           THEN fb.result = [kind |-> "returned", value |-> inv[Len(inv)].name]
           ELSE /\ fb.result.kind = "raised"
                /\ Len(inv) = Cardinality(opts)

\* three options added out of order, two of one level; the first one
\* raises, the second one returns and the third one is not invoked
C10_Witness ==
    /\ fb.op = "execute"
    /\ Len(fb.pre.options) = 3
    /\ fb.pre.options[1].name > fb.pre.options[3].name
    /\ Len(fb.invoked) = 2
    /\ fb.invoked[1].level = fb.invoked[2].level
    /\ fb.result.kind = "returned"
    /\ fb.result.value = fb.invoked[2].name

\* C11: execute() raises the aggregate exception exactly when the handler
\* of every option was invoked and raised; when it raises, every option was
\* invoked exactly once and the aggregate message lists every option, in
\* the order of the chain, with the error its handler raised.
C11_AggregateIffAllFailed ==
    fb.op = "execute" =>
        LET inv == fb.invoked
            options == fb.pre.options
            failed(o) == \E i \in DOMAIN inv : inv[i] = o /\ ~fb.handler[o.name]
        IN
        /\ fb.result.kind = "raised" <=> \A k \in DOMAIN options : failed(options[k])
        /\ fb.result.kind = "raised" =>
              /\ \A k \in DOMAIN options :
                    Cardinality({i \in DOMAIN inv : inv[i] = options[k]}) = 1
              /\ fb.errors = [k \in DOMAIN options |->
                                <<options[k].name, Error(options[k].name)>>]

\* a chain of three options of which every handler raised
C11_Witness ==
    /\ fb.op = "execute"
    /\ Len(fb.pre.options) = 3
    /\ fb.result.kind = "raised"
    /\ Len(fb.errors) = 3

\* C21: execution_history only grows.  Every operation leaves the entries
\* it found in place; add_option() appends none; execute() appends one
\* entry per handler it invoked, in the order of invocation and numbered by
\* the option's position, a failure entry for every handler that raised and
\* a success entry, the last one, when a handler returned.
C21_HistoryOnlyGrows ==
    LET old == fb.pre.execution_history
        new == chain.execution_history
        added == Appended(old, new)
    IN
    fb.op /= "init" =>
        /\ Len(new) >= Len(old)
        /\ SubSeq(new, 1, Len(old)) = old
        /\ fb.op = "add_option" => added = <<>>
        /\ fb.op = "execute" =>
              /\ Len(added) = Len(fb.invoked)
              /\ \A i \in DOMAIN added :
                    /\ added[i].option = fb.invoked[i].name
                    /\ added[i].level = fb.invoked[i].level
                    /\ added[i].attempt_number = i
                    /\ added[i].success = fb.handler[fb.invoked[i].name]
                    /\ added[i].success => i = Len(added)
              /\ fb.result.kind = "returned" <=>
                    (added /= <<>> /\ added[Len(added)].success)

\* a second execute() on a chain whose history is not empty: two handlers
\* raise and the third returns, which appends two failure entries and a
\* success entry behind the old ones
C21_Witness ==
    /\ fb.op = "execute"
    /\ fb.executes = 2
    /\ fb.pre.execution_history /= <<>>
    /\ Len(chain.execution_history) = Len(fb.pre.execution_history) + 3
    /\ fb.result.kind = "returned"
    /\ ~chain.execution_history[Len(chain.execution_history) - 1].success

\* C18: an operation that fails while the breaker is HALF_OPEN leaves the
\* breaker OPEN, however many probes succeeded before it, and the recovery
\* timer restarts at that failure: state_changed_at is the time the
\* failure was recorded, and no operation is admitted from that OPEN episode until more
\* than recovery_timeout seconds after it.
LastChange(b) == b.stats.state_changes[Len(b.stats.state_changes)]

C18_ProbeFailureReopens ==
    /\ (ProbeCall /\ last.outcome = "raised") =>
          /\ cb.state = OPEN
          /\ cb.state_changed_at = cb.stats.last_failure_time
          /\ cb.state_changed_at >= last.t
          /\ last.changes /= <<>>
          /\ LastChange(cb) = [time |-> cb.stats.last_failure_time,
                               from |-> HALF_OPEN, to |-> OPEN,
                               reason |-> "probe_failed"]
    /\ (/\ last.op = "call"
        /\ last.pre.state = OPEN
        /\ LastChange(last.pre).reason = "probe_failed"
        /\ last.invoked)
       => last.t > LastChange(last.pre).time + last.pre.recovery_timeout

\* a probe that fails after another probe succeeded, the failure coming
\* later than the entry of the call
C18_Witness ==
    /\ ProbeCall
    /\ last.outcome = "raised"
    /\ last.pre.state = HALF_OPEN
    /\ last.pre.half_open_success_count = 1
    /\ cb.state = OPEN
    /\ cb.state_changed_at > last.t

\* C20 (under SpecRace): with two threads inside call() on one breaker, a
\* HALF_OPEN -> HALF_OPEN entry is logged only by a thread that saw the
\* breaker OPEN with the timeout elapsed and performed its reset step after
\* the other thread's reset step; the interleaving in which that happens,
\* and in which the second reset sets half_open_success_count back to 0
\* after the other thread's probe success was counted, is reachable.
Logged(i) == cb.stats.state_changes[i]

C20_DoubleResetOnlyByRace ==
    \A p \in Threads :
        (th[p].wrote /= 0 /\ Logged(th[p].wrote).from = HALF_OPEN) =>
            /\ Logged(th[p].wrote).to = HALF_OPEN
            /\ th[p].seen >= 1
            /\ Logged(th[p].seen).to = OPEN
            /\ \E k \in (th[p].seen + 1)..(th[p].wrote - 1) :
                  Logged(k) = [time |-> Logged(k).time, from |-> OPEN,
                               to |-> HALF_OPEN, reason |-> "recovery"]

\* both threads saw the timeout elapsed; the first one reset the breaker and
\* its probe succeeded, then the second one logged HALF_OPEN -> HALF_OPEN
\* and overwrote the count of 1 with 0
C20_Witness ==
    \E p \in Threads :
        /\ th[p].pc = "check"
        /\ th[p].wrote /= 0
        /\ Logged(th[p].wrote).from = HALF_OPEN
        /\ Logged(th[p].wrote).to = HALF_OPEN
        /\ th[p].lost = 1
        /\ cb.state = HALF_OPEN
        /\ cb.half_open_success_count = 0
        /\ cb.stats.success_count = 1

(***************************************************************************)
(* Claims about the request analyzer (under SpecAnalyze)                   *)
(***************************************************************************)
Matched(type, text) ==
    \E k \in TYPE_KEYWORDS[type] :
        Contains([i \in DOMAIN text |-> Lower(text[i])], k)

\* C16: analyze() returns CHAT for every message that contains no keyword
\* of TYPE_KEYWORDS, and returns another type only for a message that
\* contains a keyword of that type.
C16_ChatWithoutKeyword ==
    az.op = "analyze" =>
        /\ (\A type \in DOMAIN TYPE_KEYWORDS : ~Matched(type, az.raw_content))
              => az.result = "chat"
        /\ az.result /= "chat" => Matched(az.result, az.raw_content)

(***************************************************************************)
(* Claims about the routing strategies and the router                      *)
(***************************************************************************)
\* C17 (under SpecBalance): while a LoadBalancingStrategy is given one and
\* the same list of two or more providers, the selection counts of any two
\* of them differ by at most one, and select_provider() returns a provider
\* of the list that no other provider of the list had a smaller count than.
C17_RoundRobin ==
    (lb.fixed /\ Len(lb.available) >= 2) =>
        /\ \A p, q \in Range(lb.available) :
              Count(lb.provider_counts, p) - Count(lb.provider_counts, q) <= 1
        /\ lb.op = "select" =>
              /\ lb.outcome.kind = "returned"
              /\ lb.outcome.value \in Range(lb.available)
              /\ \A q \in Range(lb.available) :
                    Count(lb.pre, lb.outcome.value) <= Count(lb.pre, q)
              /\ lb.provider_counts[lb.outcome.value] =
                    Count(lb.pre, lb.outcome.value) + 1

\* three providers, four selections: every provider once, then one again
C17_Witness ==
    /\ lb.fixed
    /\ lb.op = "select"
    /\ Len(lb.available) = 3
    /\ lb.selects = 4
    /\ \A p \in Range(lb.available) : Count(lb.pre, p) = 1
    /\ lb.provider_counts[lb.outcome.value] = 2

\* the entry that the latest route_request() appended
Recorded == router.routing_history[Len(router.routing_history)]

\* C14 (under SpecRouter): route_request() with a non-empty
\* override_provider returns that provider with metadata strategy
\* "override", whatever the strategy, the API keys and the circuit states,
\* without asking the strategy, and appends one entry, for that provider,
\* to routing_history.
C14_OverrideWins ==
    (routed.op = "route_request" /\ routed.override_provider /= "") =>
        /\ routed.outcome.kind = "returned"
        /\ routed.outcome.provider = routed.override_provider
        /\ routed.outcome.metadata.strategy = "override"
        /\ ~routed.asked
        /\ Len(router.routing_history) = routed.before + 1
        /\ Recorded.provider = routed.override_provider
        /\ Recorded.metadata = routed.outcome.metadata

\* gemini is forced while it has no API key and its circuit is OPEN
C14_Witness ==
    /\ routed.op = "route_request"
    /\ routed.override_provider = "gemini"
    /\ "gemini" \notin env.keys
    /\ env.registry["gemini"] = OPEN
    /\ routed.outcome.provider = "gemini"
    /\ routed.outcome.metadata.strategy = "override"
    /\ Len(router.routing_history) = 2

\* a provider is eligible: it has an API key, and the breaker registered
\* for it, if any, is not OPEN
Eligible(p) == p \in env.keys /\ env.registry[p] /= OPEN

\* C15 (under SpecRouter): route_request() without override returns
\* "simulation" with metadata strategy "fallback" exactly when no provider
\* is eligible, and then it does not ask the strategy.
C15_SimulationIffNoneAvailable ==
    (routed.op = "route_request" /\ routed.override_provider = "") =>
        /\ routed.available = <<>> <=> \A p \in Keyed : ~Eligible(p)
        /\ routed.outcome.kind = "returned"
        /\ (routed.outcome.provider = "simulation") <=> (routed.available = <<>>)
        /\ (routed.outcome.metadata.strategy = "fallback") <=> (routed.available = <<>>)
        /\ routed.asked <=> (routed.available /= <<>>)

\* both providers have a key and both circuits are OPEN
C15_Witness ==
    /\ routed.op = "route_request"
    /\ routed.override_provider = ""
    /\ env.keys = Keyed
    /\ \A p \in Keyed : env.registry[p] = OPEN
    /\ routed.outcome.provider = "simulation"
    /\ routed.outcome.metadata.strategy = "fallback"
    /\ ~routed.asked

\* C19 (under SpecRouter): route_request() without override never returns
\* a provider whose registered breaker is OPEN; a keyed provider whose
\* breaker is CLOSED or HALF_OPEN or that has no registered breaker is in
\* the list the strategy chooses from, and is returned when it is the
\* only one.
C19_NeverOpenProvider ==
    (routed.op = "route_request" /\ routed.override_provider = "") =>
        /\ routed.outcome.kind = "returned"
        /\ \A p \in Keyed :
              env.registry[p] = OPEN => routed.outcome.provider /= p
        /\ \A p \in Keyed :
              (p \in env.keys /\ env.registry[p] \in {CLOSED, HALF_OPEN, Unregistered})
                 <=> p \in Range(routed.available)
        /\ routed.available /= <<>> =>
              routed.outcome.provider \in Range(routed.available)

\* openai is preferred for the request but its circuit is OPEN; gemini,
\* with its circuit HALF_OPEN, is returned
C19_Witness ==
    /\ routed.op = "route_request"
    /\ routed.override_provider = ""
    /\ env.keys = Keyed
    /\ env.registry["openai"] = OPEN
    /\ env.registry["gemini"] = HALF_OPEN
    /\ Recorded.request_type = "code"
    /\ router.strategy.class = "StaticRoutingStrategy"
    /\ routed.outcome.provider = "gemini"

(***************************************************************************)
(* Claims about the resilient service (under SpecService)                  *)
(***************************************************************************)
\* the wrapper's chain has the option of the alternative provider
HasSecondary ==
    \E i \in DOMAIN wrapper.chain.options :
        wrapper.chain.options[i].level = "secondary"

\* C12 (under SpecService): pozovi_ai() of the wrapper returns a response
\* whatever the base service does, whatever the breaker's state and
\* whether or not the alternative provider works; the response comes from
\* the first of primary, secondary and simulation that succeeded (the
\* emergency message stands behind them) and no exception reaches the
\* caller.
C12_AlwaysAnswers ==
    reply.op = "pozovi_ai" =>
        /\ reply.outcome.kind = "returned"
        /\ reply.outcome.source \in {"glavni", "rezerva", "Simulacija", "emergency"}
        /\ reply.outcome.source = "glavni" <=> reply.primary = "returned"
        /\ reply.outcome.source = "rezerva" <=>
               (reply.primary /= "returned" /\ HasSecondary /\ wrapper.alternative)
        /\ reply.primary \in {"returned", "raised", "CircuitOpenError"}

\* the breaker is OPEN and rejects the primary call, the alternative
\* provider fails too, and the simulation answers
C12_Witness ==
    /\ reply.op = "pozovi_ai"
    /\ reply.pre = OPEN
    /\ reply.primary = "CircuitOpenError"
    /\ HasSecondary
    /\ ~wrapper.alternative
    /\ Len(reply.invoked) = 3
    /\ reply.outcome = [kind |-> "returned", source |-> "Simulacija"]

\* C13 (under SpecService): around a provider service whose API call has
\* failed at every invocation, the breaker of the wrapper is OPEN once
\* failure_threshold calls of pozovi_ai() have been made, and a further
\* call made before the recovery timeout is over does not reach the
\* provider.
C13_FailingProviderOpensBreaker ==
    (/\ reply.op = "pozovi_ai"
     /\ wrapper.base_service = "provider"
     /\ reply.failing
     /\ reply.calls >= ResilientThreshold) =>
        /\ wrapper.breaker.state = OPEN
        /\ (reply.calls > ResilientThreshold /\ clock <= ResilientTimeout) =>
               reply.invocations = 0

(***************************************************************************)
(* Claims about SmartRetry (under SpecSmart)                               *)
(***************************************************************************)
\* C22: execute_with_retry never raises what func raised.  It returns
\* (True, result) at the first attempt at which func returns, and the entry
\* of func is then gone from failure_history; it returns (False, error),
\* with the error func raised last, as soon as an attempt fails with an
\* error that is not to be retried or the max_attempts-th attempt fails;
\* it goes on to another attempt in no other case, so func is invoked at
\* most max_attempts times.
C22_SmartRetryNeverRaises ==
    /\ sr.invocations <= sr.config.max_attempts
    /\ sr.outcome.kind /= "raised"
    /\ (sfn.calls > 0 /\ sr.invocations > 0) =>
          /\ sr.pc = "done" <=>
                \/ sfn.ok
                \/ ~should_retry(sfn.raised)
                \/ sr.invocations = sr.config.max_attempts
          /\ sr.pc = "done" =>
                /\ sr.outcome.kind = "returned"
                /\ sr.outcome.success = sfn.ok
                /\ sfn.ok => sr.func_name \notin DOMAIN smart.failure_history
                /\ ~sfn.ok =>
                      /\ sr.outcome.value = [id |-> sr.invocations, msg |-> sfn.raised]
                      /\ sr.func_name \in DOMAIN smart.failure_history

\* func, with failures on record from an earlier call, fails with an error
\* that is retried and then returns: (True, result), and its entry is gone
C22_Witness ==
    /\ sr.pc = "done"
    /\ sfn.calls = 2
    /\ sr.func_name \in DOMAIN sfn.before.failure_history
    /\ sr.invocations = 2
    /\ sr.outcome = [kind |-> "returned", success |-> TRUE, value |-> NoError]
    /\ sr.func_name \notin DOMAIN smart.failure_history

(***************************************************************************)
(* Claims about the breakers of the providers (under SpecRegistry)         *)
(***************************************************************************)
\* C23: a call through the wrapper of one provider leaves the breaker
\* registered for every other provider as it was, state and counters, and
\* likewise the breaker of every other wrapper instance.
C23_BreakersIndependent ==
    reg.op = "call" =>
        /\ \A n \in DOMAIN circuit_registry :
              n /= CircuitName(wrappers[reg.by].provider_name) =>
                 breakers[circuit_registry[n]] = reg.before[circuit_registry[n]]
        /\ \A j \in DOMAIN wrappers :
              j /= reg.by =>
                 breakers[wrappers[j].circuit_breaker] =
                    reg.before[wrappers[j].circuit_breaker]

(***************************************************************************)
(* Claims about the load balancing and hybrid strategies                   *)
(***************************************************************************)
\* C25 (under SpecBalance): LoadBalancingStrategy.select_provider, given a
\* list that is not empty, returns a member of the list and does not
\* raise, also when the list differs from the lists of earlier calls.
C25_SelectNeverRaises ==
    (lb.op = "select" /\ lb.available /= <<>>) =>
        /\ lb.outcome.kind = "returned"
        /\ lb.outcome.value \in Range(lb.available)

\* C24 (under SpecHybrid): with the default weights, HybridRoutingStrategy
\* returns for every request and every list of two or more providers,
\* whatever its load balancer has counted, the provider that
\* StaticRoutingStrategy returns for that request and list.
C24_HybridIsStatic ==
    (hy.op = "select" /\ Len(hy.available) >= 2) =>
        hy.outcome = [kind |-> "returned",
                      value |-> static_select_provider(hy.request_type, hy.available)]

(***************************************************************************)
(* Claims about rejected calls, the manual reset and recovery              *)
(***************************************************************************)
\* C26 (under SpecCircuit): a call made while the breaker is OPEN and the
\* recovery timeout has not elapsed is rejected and counted as a failure
\* (failure_count and consecutive_failures grow by one) without touching
\* state_changed_at, so rejections do not postpone recovery: a call made
\* once recovery_timeout has elapsed since the breaker opened is admitted
\* as a probe, however many calls were rejected in between.
C26_RejectionDoesNotPostpone ==
    (last.op = "call" /\ last.pre.state = OPEN) =>
        IF last.t > last.pre.state_changed_at + last.pre.recovery_timeout
        THEN /\ last.invoked
             /\ last.outcome /= "CircuitOpenError"
             /\ Len(last.changes) >= 1
             /\ last.changes[1].to = HALF_OPEN
        ELSE /\ ~last.invoked
             /\ last.outcome = "CircuitOpenError"
             /\ cb.state = OPEN
             /\ cb.state_changed_at = last.pre.state_changed_at
             /\ cb.stats.failure_count = last.pre.stats.failure_count + 1
             /\ cb.stats.consecutive_failures =
                    last.pre.stats.consecutive_failures + 1
             /\ cb.stats.success_count = last.pre.stats.success_count
             /\ last.changes = <<>>

\* a probe is admitted although a call was rejected after the breaker opened
C26_Witness ==
    /\ last.op = "call"
    /\ last.pre.state = OPEN
    /\ last.invoked
    /\ last.pre.stats.last_failure_time > last.pre.state_changed_at
    /\ last.pre.stats.consecutive_failures > last.pre.failure_threshold

\* C29 (under SpecCircuit): reset() in any state leaves the breaker CLOSED
\* with fresh statistics: success_count, failure_count,
\* consecutive_failures and half_open_success_count are 0 and the log of
\* state changes is empty, the entry of the reset itself included; so the
\* next opening from CLOSED again takes failure_threshold consecutive
\* failures.
C29_ResetIsFresh ==
    /\ last.op = "reset" =>
          /\ cb = [last.pre EXCEPT !.state = CLOSED, !.stats = CircuitStats,
                                   !.half_open_success_count = 0,
                                   !.state_changed_at = last.t]
          /\ cb.stats.state_changes = <<>>
          /\ Len(last.changes) = 1
          /\ last.changes[1].to = CLOSED
    /\ (last.op = "call" /\ last.pre.state = CLOSED /\ cb.state = OPEN) =>
          /\ streak >= cb.failure_threshold
          /\ cb.stats.consecutive_failures >= cb.failure_threshold

\* an OPEN breaker with failures on record and a log is reset
C29_Witness ==
    /\ last.op = "reset"
    /\ last.pre.state = OPEN
    /\ last.pre.stats.failure_count > 0
    /\ last.pre.stats.state_changes /= <<>>
    /\ last.pre.half_open_success_count > 0

\* C27 (under SpecRecovery, where time keeps advancing and call() keeps
\* being invoked): recovery is live.  From any reachable state of the
\* breaker, once every invoked operation succeeds, the breaker eventually
\* is CLOSED and stays CLOSED.
C27_RecoveryIsLive == health.healed ~> [](cb.state = CLOSED)

\* a breaker that was OPEN when the function recovered has closed through
\* its probes
C27_Witness ==
    /\ health.healed
    /\ health.from = OPEN
    /\ cb.state = CLOSED
    /\ last.op = "call"
    /\ last.pre.state = HALF_OPEN
    /\ health.steps > 0

(***************************************************************************)
(* Claims about the composition inside ResilientAIServiceWrapper           *)
(***************************************************************************)
\* C28 (under SpecService): _try_alternative_provider leaves
\* Config.AI_PROVIDER as it found it, whether the alternative service
\* answers, cannot be created or raises when asked, although the other
\* provider was set while it was asked; so Config.AI_PROVIDER is the same
\* after every pozovi_ai as before it.
C28_ProviderRestored ==
    reply.op = "pozovi_ai" =>
        /\ globals.AI_PROVIDER = reply.provider
        /\ reply.how /= "none" =>
              /\ reply.during \in {"openai", "gemini"} \ {reply.provider}
              /\ globals.instance = "none"

\* the alternative was asked and raised
C28_Witness ==
    /\ reply.op = "pozovi_ai"
    /\ reply.how = "raises"
    /\ reply.provider = "gemini"
    /\ reply.during = "openai"
    /\ reply.outcome.source = "Simulacija"

\* C30 (under SpecService): the breaker is outside the retry.  One
\* invocation of the primary option records exactly one success or one
\* failure on the breaker, however many attempts the retry made, so the
\* breaker has recorded as many outcomes as pozovi_ai was called and opens
\* at the third primary invocation that fails (each after up to 3
\* attempts); while the breaker is OPEN and its timeout has not elapsed,
\* the primary option does not invoke the base service.
C30_OneRecordPerInvocation ==
    reply.op = "pozovi_ai" =>
        /\ wrapper.breaker.stats.success_count
              + wrapper.breaker.stats.failure_count = reply.calls
        /\ reply.invocations <= DefaultAttempts
        /\ reply.primary = "raised" <=>
              /\ reply.invocations >= 1
              /\ wrapper.breaker.stats.consecutive_failures >= 1
              /\ wrapper.breaker.stats.last_failure_time = clock
              /\ reply.pre /= OPEN \/ reply.elapsed
        /\ (wrapper.base_service = "raising" /\ reply.failing) =>
              /\ wrapper.breaker.stats.failure_count = reply.calls
              /\ wrapper.breaker.state =
                    IF reply.calls >= ResilientThreshold THEN OPEN ELSE CLOSED
        /\ (reply.pre = OPEN /\ ~reply.elapsed) =>
              /\ reply.primary = "CircuitOpenError"
              /\ reply.invocations = 0
              /\ wrapper.breaker.state = OPEN

\* the third failing invocation of the primary, three attempts made, opens
\* the breaker with three failures on record
C30_Witness ==
    /\ reply.op = "pozovi_ai"
    /\ wrapper.base_service = "raising"
    /\ reply.calls = ResilientThreshold
    /\ reply.invocations = DefaultAttempts
    /\ reply.pre = CLOSED
    /\ wrapper.breaker.state = OPEN
    /\ wrapper.breaker.stats.failure_count = ResilientThreshold

=============================================================================
